---------------------------- MODULE Spec2Model ----------------------------
(***************************************************************************)
(* A model of the mcp-seo server: the keyword-density analyzer, the        *)
(* heading-structure and meta-tag analyzers over a fetched page, the       *)
(* robots.txt and sitemap analyzers, and the tool handlers that expose     *)
(* them.  Strings are sequences of one-character strings, so that          *)
(* tokenizing, joining, searching and number formatting are computed the   *)
(* way the code computes them.                                             *)
(***************************************************************************)
EXTENDS Integers, Sequences, FiniteSets, TLC

VARIABLES
  kdText,     \* keywordDensity: the text argument
  kdTarget,   \* keywordDensity: the targetKeyword argument, or Undefined
  kdWords,    \* keywordDensity: the local token stream `words`
  kdOut,      \* keywordDensity: the returned value, before JSON.stringify
  rdText,     \* readability: the text argument
  tool,       \* the tool whose handler runs
  url,        \* its url argument
  pc,         \* where the call stands: start, fetching, reading, done
  timerArmed, \* fetchPage: the abort timer is set
  fetches,    \* the number of fetch() calls the call has issued
  failure,    \* how the fetch failed: none, network, abort, body
  status,     \* the status of the response, 0 before there is one
  body,       \* the response body that was read
  outcome,    \* what the analyzer call came to
  reply,      \* what the handler returned to the caller
  calls       \* the handler calls that run side by side, each with its locals

kdVars == <<kdText, kdTarget, kdWords, kdOut>>

serverVars ==
  <<rdText, tool, url, pc, timerArmed, fetches, failure, status, body,
    outcome, reply>>

vars == <<kdVars, serverVars, calls>>

(***************************************************************************)
(* Undefined stands for an absent string (undefined or null), Null for an  *)
(* absent object, Pending for the result of a call that has not returned.  *)
(***************************************************************************)
Undefined == <<"undefined">>
Null == [null |-> TRUE]
Pending == [pending |-> TRUE]

-----------------------------------------------------------------------------
(* Characters and strings                                                  *)

LowerLetters ==
  {"a","b","c","d","e","f","g","h","i","j","k","l","m",
   "n","o","p","q","r","s","t","u","v","w","x","y","z"}

Digits == {"0","1","2","3","4","5","6","7","8","9"}

\* the characters matched by \s that the inputs use
Whitespace == {" ", "\n", "\t"}

IsSpace(c) == c \in Whitespace

\* String.prototype.toLowerCase on ASCII
ToLowerChar(c) ==
  CASE c = "A" -> "a" [] c = "B" -> "b" [] c = "C" -> "c" [] c = "D" -> "d"
    [] c = "E" -> "e" [] c = "F" -> "f" [] c = "G" -> "g" [] c = "H" -> "h"
    [] c = "I" -> "i" [] c = "J" -> "j" [] c = "K" -> "k" [] c = "L" -> "l"
    [] c = "M" -> "m" [] c = "N" -> "n" [] c = "O" -> "o" [] c = "P" -> "p"
    [] c = "Q" -> "q" [] c = "R" -> "r" [] c = "S" -> "s" [] c = "T" -> "t"
    [] c = "U" -> "u" [] c = "V" -> "v" [] c = "W" -> "w" [] c = "X" -> "x"
    [] c = "Y" -> "y" [] c = "Z" -> "z"
    [] OTHER -> c

ToLowerCase(s) == [i \in 1..Len(s) |-> ToLowerChar(s[i])]

\* String.prototype.trim
RECURSIVE TrimStart(_)
TrimStart(s) ==
  IF s # <<>> /\ IsSpace(Head(s)) THEN TrimStart(Tail(s)) ELSE s

RECURSIVE TrimEnd(_)
TrimEnd(s) ==
  IF s # <<>> /\ IsSpace(s[Len(s)]) THEN TrimEnd(SubSeq(s, 1, Len(s) - 1))
  ELSE s

Trim(s) == TrimEnd(TrimStart(s))

\* the first position from i on whose character is in the set, Len(s) + 1
\* when there is none
FirstIn(s, i, set) ==
  IF \E j \in i..Len(s) : s[j] \in set
  THEN CHOOSE j \in i..Len(s) :
         s[j] \in set /\ \A k \in i..(j - 1) : s[k] \notin set
  ELSE Len(s) + 1

\* String.prototype.split(/[set]+/): one cut per maximal run of separators.
\* The pieces are the maximal runs of other characters, from their first
\* positions on; a leading or trailing run of separators leaves an empty
\* string at that end, and the empty string gives one empty piece.
SplitRuns(s, set) ==
  LET starts == SelectSeq([i \in 1..Len(s) |-> i],
                          LAMBDA i : s[i] \notin set
                                       /\ (i = 1 \/ s[i - 1] \in set))
      pieces == [k \in 1..Len(starts) |->
                   SubSeq(s, starts[k], FirstIn(s, starts[k], set) - 1)]
      empty == << <<>> >>
  IN  IF s = <<>> THEN empty
      ELSE (IF s[1] \in set THEN empty ELSE <<>>)
             \o pieces
             \o (IF s[Len(s)] \in set THEN empty ELSE <<>>)

\* split(/\s+/)
SplitWs(s) == SplitRuns(s, Whitespace)

\* String.prototype.split(" "): one cut per space character
RECURSIVE SplitSpaceFrom(_, _)
SplitSpaceFrom(s, i) ==
  LET e == FirstIn(s, i, {" "})
  IN  IF e > Len(s) THEN << SubSeq(s, i, Len(s)) >>
      ELSE << SubSeq(s, i, e - 1) >> \o SplitSpaceFrom(s, e + 1)

SplitSpace(s) == SplitSpaceFrom(s, 1)

\* Array.prototype.join(" "): the join of the two halves, a space between
RECURSIVE JoinSpace(_)
JoinSpace(ws) ==
  IF ws = <<>> THEN <<>>
  ELSE IF Len(ws) = 1 THEN ws[1]
       ELSE LET half == Len(ws) \div 2
            IN  JoinSpace(SubSeq(ws, 1, half)) \o <<" ">>
                  \o JoinSpace(SubSeq(ws, half + 1, Len(ws)))

\* does t occur in s at (1-based) position p
MatchAt(s, t, p) ==
  /\ p >= 1
  /\ p + Len(t) - 1 <= Len(s)
  /\ \A k \in 1..Len(t) : s[p + k - 1] = t[k]

\* String.prototype.indexOf(t, from) with 0-based positions, -1 when absent
IndexOf(s, t, from) ==
  LET hits == {p \in from..(Len(s) - Len(t)) : MatchAt(s, t, p + 1)}
  IN  IF hits = {} THEN -1
      ELSE CHOOSE p \in hits : \A q \in hits : p <= q

-----------------------------------------------------------------------------
(* Number formatting                                                       *)

DigitChar(d) ==
  CASE d = 0 -> "0" [] d = 1 -> "1" [] d = 2 -> "2" [] d = 3 -> "3"
    [] d = 4 -> "4" [] d = 5 -> "5" [] d = 6 -> "6" [] d = 7 -> "7"
    [] d = 8 -> "8" [] d = 9 -> "9"

DigitVal(c) == CHOOSE d \in 0..9 : DigitChar(d) = c

\* the decimal digits of a natural number
RECURSIVE NatToString(_)
NatToString(n) ==
  IF n < 10 THEN <<DigitChar(n)>>
  ELSE Append(NatToString(n \div 10), DigitChar(n % 10))

RECURSIVE StringToNat(_)
StringToNat(s) ==
  IF s = <<>> THEN 0
  ELSE 10 * StringToNat(SubSeq(s, 1, Len(s) - 1)) + DigitVal(s[Len(s)])

\* a variant of toFixed that cuts the digits after the second decimal
ToFixed2Trunc(count, total) ==
  LET h == (10000 * count) \div total
  IN  NatToString(h \div 100) \o <<".">>
        \o <<DigitChar((h % 100) \div 10), DigitChar(h % 10)>>

\* ((count / total) * 100).toFixed(2): the nearest number of hundredths, the
\* larger one on a tie, printed with two decimals.  The quotient is taken
\* exactly; for the word counts reached here the double nearest to it rounds
\* to the same hundredth.
ToFixed2(count, total) ==
  IF total = 0
  THEN \* 0 / 0 is NaN and n / 0 is Infinity; toFixed prints their names
       IF count = 0 THEN <<"N","a","N">>
       ELSE <<"I","n","f","i","n","i","t","y">>
  ELSE LET h == (2 * 10000 * count + total) \div (2 * total)
       IN  NatToString(h \div 100) \o <<".">>
             \o <<DigitChar((h % 100) \div 10), DigitChar(h % 10)>>

\* a variant that scales the quotient by 1000
DensityPerMille(count, total) == ToFixed2(10 * count, total) \o <<"%">>

Density(count, total) == ToFixed2(count, total) \o <<"%">>

-----------------------------------------------------------------------------
(* keyword_density                                                         *)

STOP_WORDS == {
    <<"a">>, <<"a","n">>, <<"t","h","e">>, <<"a","n","d">>, <<"o","r">>,
    <<"b","u","t">>, <<"i","n">>, <<"o","n">>, <<"a","t">>, <<"t","o">>,
    <<"f","o","r">>, <<"o","f">>, <<"w","i","t","h">>, <<"b","y">>,
    <<"f","r","o","m">>, <<"i","s">>, <<"a","r","e">>, <<"w","a","s">>,
    <<"w","e","r","e">>, <<"b","e">>, <<"b","e","e","n">>,
    <<"b","e","i","n","g">>, <<"h","a","v","e">>, <<"h","a","s">>,
    <<"h","a","d">>, <<"d","o">>, <<"d","o","e","s">>, <<"d","i","d">>,
    <<"w","i","l","l">>, <<"w","o","u","l","d">>, <<"c","o","u","l","d">>,
    <<"s","h","o","u","l","d">>, <<"m","a","y">>, <<"m","i","g","h","t">>,
    <<"s","h","a","l","l">>, <<"c","a","n">>, <<"i","t">>, <<"i","t","s">>,
    <<"t","h","i","s">>, <<"t","h","a","t">>, <<"t","h","e","s","e">>,
    <<"t","h","o","s","e">>, <<"i">>, <<"y","o","u">>, <<"h","e">>,
    <<"s","h","e">>, <<"w","e">>, <<"t","h","e","y">>, <<"m","e">>,
    <<"h","i","m">>, <<"h","e","r">>, <<"u","s">>, <<"t","h","e","m">>,
    <<"m","y">>, <<"y","o","u","r">>, <<"h","i","s">>, <<"o","u","r">>,
    <<"t","h","e","i","r">>, <<"w","h","a","t">>, <<"w","h","i","c","h">>,
    <<"w","h","o">>, <<"w","h","o","m">>, <<"h","o","w">>,
    <<"w","h","e","n">>, <<"w","h","e","r","e">>, <<"w","h","y">>,
    <<"n","o","t">>, <<"n","o">>, <<"s","o">>, <<"i","f">>,
    <<"t","h","e","n">>, <<"t","h","a","n">>, <<"a","s">>, <<"u","p">>,
    <<"o","u","t">>, <<"a","b","o","u","t">>, <<"i","n","t","o">>,
    <<"o","v","e","r">>, <<"a","f","t","e","r">>, <<"a","l","s","o">>,
    <<"j","u","s","t">>, <<"m","o","r","e">>, <<"m","o","s","t">>,
    <<"v","e","r","y">>, <<"a","l","l">>, <<"e","a","c","h">>,
    <<"e","v","e","r","y">>, <<"b","o","t","h">>, <<"f","e","w">>,
    <<"s","o","m","e">>, <<"a","n","y">>, <<"o","t","h","e","r">>,
    <<"s","u","c","h">>, <<"o","n","l","y">>, <<"o","w","n">>,
    <<"s","a","m","e">>, <<"t","o","o">>
  }

\* the characters the tokenizer keeps: [a-z0-9\s'-]
TokenChars == LowerLetters \cup Digits \cup Whitespace \cup {"'", "-"}

Tokenize(text) ==
  LET lower == ToLowerCase(text)
      clean == [i \in 1..Len(lower) |->
                  IF lower[i] \in TokenChars THEN lower[i] ELSE " "]
  IN  SelectSeq(SplitWs(clean), LAMBDA w : Len(w) > 1)

\* A Map<string, number> is the sequence of its entries in insertion order.
MapHas(m, k) == \E i \in 1..Len(m) : m[i].key = k

MapGet(m, k) ==
  IF MapHas(m, k) THEN m[CHOOSE i \in 1..Len(m) : m[i].key = k].count
  ELSE 0

\* the Map that counts.set(k, (counts.get(k) ?? 0) + 1) builds over the keys
\* in turn: one entry for each distinct key, in the order the keys first
\* come, with the number of times the key comes
CountInOrder(keys) ==
  LET firsts == SelectSeq([i \in 1..Len(keys) |-> i],
                          LAMBDA i : \A j \in 1..(i - 1) : keys[j] # keys[i])
  IN  [k \in 1..Len(firsts) |->
         [key |-> keys[firsts[k]],
          count |-> Cardinality({j \in 1..Len(keys) :
                                   keys[j] = keys[firsts[k]]})]]

\* the single-word loop of keywordDensity
WordCounts(words) ==
  CountInOrder(SelectSeq(words, LAMBDA w : w \notin STOP_WORDS))

\* words.slice(i, i + n).join(" ") for each window of n words
Grams(words, n) ==
  [i \in 1..(Len(words) - n + 1) |-> JoinSpace(SubSeq(words, i, i + n - 1))]

\* a variant of getNgrams that tests only the first word of a window
GetNgramsFirstOnly(words, n) ==
  CountInOrder(SelectSeq(Grams(words, n),
                         LAMBDA gram : SplitSpace(gram)[1] \notin STOP_WORDS))

GetNgrams(words, n) ==
  CountInOrder(SelectSeq(Grams(words, n),
                         LAMBDA gram :
                           \A k \in 1..Len(SplitSpace(gram)) :
                             SplitSpace(gram)[k] \notin STOP_WORDS))

\* Array.prototype.sort((a, b) => b[1] - a[1]): a stable sort, descending
\* by count.  An entry comes after the entries with a larger count and
\* after the earlier entries with the same count.
SortDesc(entries) ==
  LET before(i) == {j \in 1..Len(entries) :
                      \/ entries[j].count > entries[i].count
                      \/ entries[j].count = entries[i].count /\ j < i}
  IN  [p \in 1..Len(entries) |->
         entries[CHOOSE i \in 1..Len(entries) :
                   Cardinality(before(i)) = p - 1]]

Min(a, b) == IF a < b THEN a ELSE b

Slice(s, n) == SubSeq(s, 1, Min(n, Len(s)))

\* a variant of topN that cuts the list before it sorts it
TopNSliceFirst(counts, n, total) ==
  LET top == SortDesc(Slice(counts, n))
  IN  [i \in 1..Len(top) |->
         [key |-> top[i].key, count |-> top[i].count,
          density |-> Density(top[i].count, total)]]

TopN(counts, n, total) ==
  LET top == Slice(SortDesc(counts), n)
  IN  [i \in 1..Len(top) |->
         [key |-> top[i].key, count |-> top[i].count,
          density |-> Density(top[i].count, total)]]

\* a variant of the phrase loop that resumes one character after a match
RECURSIVE CountPhraseOverlapFrom(_, _, _, _)
CountPhraseOverlapFrom(joined, target, idx, count) ==
  LET found == IndexOf(joined, target, idx)
  IN  IF found = -1 THEN count
      ELSE CountPhraseOverlapFrom(joined, target, found + 1, count + 1)

CountPhraseOverlap(joined, target) ==
  CountPhraseOverlapFrom(joined, target, 0, 0)

\* the phrase loop: idx = joined.indexOf(target, idx); count++;
\* idx += target.length
RECURSIVE CountPhraseFrom(_, _, _, _)
CountPhraseFrom(joined, target, idx, count) ==
  LET found == IndexOf(joined, target, idx)
  IN  IF found = -1 THEN count
      ELSE CountPhraseFrom(joined, target, found + Len(target), count + 1)

CountPhrase(joined, target) == CountPhraseFrom(joined, target, 0, 0)

TopSingleLimit == 15
TopNgramLimit == 10

NoWordsError == [error |-> << "No words found in the provided text." >>]

\* the target-keyword block; targetKeyword is Undefined when the argument
\* is absent
TargetResult(words, wordCounts, targetKeyword) ==
  IF targetKeyword = Undefined \/ targetKeyword = <<>> THEN Null
  ELSE LET target == Trim(ToLowerCase(targetKeyword))
           targetWords == SplitWs(target)
           count == IF Len(targetWords) = 1 THEN MapGet(wordCounts, target)
                    ELSE CountPhrase(JoinSpace(words), target)
       IN  [keyword |-> targetKeyword, count |-> count,
            density |-> Density(count, Len(words))]

\* a variant that never takes the empty-input exit
KeywordDensityNoGuard(text, targetKeyword) ==
  LET words == Tokenize(text)
      totalWords == Len(words)
      wordCounts == WordCounts(words)
      single == TopN(wordCounts, TopSingleLimit, totalWords)
      bi == TopN(GetNgrams(words, 2), TopNgramLimit, totalWords)
      tri == TopN(GetNgrams(words, 3), TopNgramLimit, totalWords)
  IN  IF totalWords < 0 THEN NoWordsError
      ELSE [totalWords |-> totalWords,
            uniqueWords |-> Cardinality({words[i] : i \in 1..Len(words)}),
            targetKeyword |-> TargetResult(words, wordCounts, targetKeyword),
            topSingleWords |->
              [i \in 1..Len(single) |->
                 [word |-> single[i].key, count |-> single[i].count,
                  density |-> single[i].density]],
            topBigrams |->
              [i \in 1..Len(bi) |->
                 [phrase |-> bi[i].key, count |-> bi[i].count,
                  density |-> bi[i].density]],
            topTrigrams |->
              [i \in 1..Len(tri) |->
                 [phrase |-> tri[i].key, count |-> tri[i].count,
                  density |-> tri[i].density]]]

KeywordDensity(text, targetKeyword) ==
  LET words == Tokenize(text)
      totalWords == Len(words)
      wordCounts == WordCounts(words)
      single == TopN(wordCounts, TopSingleLimit, totalWords)
      bi == TopN(GetNgrams(words, 2), TopNgramLimit, totalWords)
      tri == TopN(GetNgrams(words, 3), TopNgramLimit, totalWords)
  IN  IF totalWords = 0 THEN NoWordsError
      ELSE [totalWords |-> totalWords,
            uniqueWords |-> Cardinality({words[i] : i \in 1..Len(words)}),
            targetKeyword |-> TargetResult(words, wordCounts, targetKeyword),
            topSingleWords |->
              [i \in 1..Len(single) |->
                 [word |-> single[i].key, count |-> single[i].count,
                  density |-> single[i].density]],
            topBigrams |->
              [i \in 1..Len(bi) |->
                 [phrase |-> bi[i].key, count |-> bi[i].count,
                  density |-> bi[i].density]],
            topTrigrams |->
              [i \in 1..Len(tri) |->
                 [phrase |-> tri[i].key, count |-> tri[i].count,
                  density |-> tri[i].density]]]

-----------------------------------------------------------------------------
(* Shared HTML utilities                                                   *)
(*                                                                         *)
(* A fetched page is the record of the elements the extraction patterns    *)
(* match, in document order:                                               *)
(*   title     the inner text of the first <title>, or Undefined           *)
(*   metas     the <meta> elements, each [property, name, content] with    *)
(*             Undefined for an attribute that is not there                *)
(*   canonical the href of the first <link rel="canonical">, or Undefined  *)
(*   headings  the <h1>..<h6> elements, each [level, inner]                *)

S_description == <<"d","e","s","c","r","i","p","t","i","o","n">>
S_viewport == <<"v","i","e","w","p","o","r","t">>
S_og == <<"o","g",":">>
S_twitter == <<"t","w","i","t","t","e","r",":">>
S_ogTitle == <<"o","g",":","t","i","t","l","e">>
S_ogDescription == <<"o","g",":","d","e","s","c","r","i","p","t","i","o","n">>
S_ogImage == <<"o","g",":","i","m","a","g","e">>
S_ogUrl == <<"o","g",":","u","r","l">>
S_twitterCard == <<"t","w","i","t","t","e","r",":","c","a","r","d">>
S_Skipped == <<"S","k","i","p","p","e","d">>
S_Short == <<"S","h","o","r","t">>
S_Intro == <<"I","n","t","r","o">>

Filler(n) == [i \in 1..n |-> "x"]

IsLetter(c) == ToLowerChar(c) \in LowerLetters

StartsWith(s, prefix) ==
  s # Undefined /\ Len(prefix) <= Len(s) /\ SubSeq(s, 1, Len(prefix)) = prefix

\* String.prototype.includes
Includes(s, t) == IndexOf(s, t, 0) # -1

\* a match of /<[^>]*>/ covers position i: a "<" at or before i whose next
\* ">" is at or after i.  A "<" inside a match has the same next ">" as the
\* match's own "<", so every such "<" counts.
InTag(s, i) ==
  \E p \in 1..i :
    /\ s[p] = "<"
    /\ \E j \in i..Len(s) :
         j > p /\ s[j] = ">" /\ \A k \in (p + 1)..(j - 1) : s[k] # ">"

\* replace(/<[^>]*>/g, ""): drop each "<" up to the next ">"
RemoveTags(s) ==
  LET kept == SelectSeq([i \in 1..Len(s) |-> i], LAMBDA i : ~ InTag(s, i))
  IN  [k \in 1..Len(kept) |-> s[kept[k]]]

\* the end of the letters that follow position i
LettersEnd(s, i) ==
  IF \E j \in (i + 1)..Len(s) : ~ IsLetter(s[j])
  THEN (CHOOSE j \in (i + 1)..Len(s) :
          ~ IsLetter(s[j]) /\ \A k \in (i + 1)..(j - 1) : IsLetter(s[k])) - 1
  ELSE Len(s)

\* a match of /&[a-z]+;/i starts at p
IsEntityStart(s, p) ==
  /\ s[p] = "&"
  /\ LettersEnd(s, p) > p
  /\ LettersEnd(s, p) + 1 <= Len(s)
  /\ s[LettersEnd(s, p) + 1] = ";"

\* replace(/&[a-z]+;/gi, " "): the "&" of a match becomes the space, the
\* letters and the ";" after it go
ReplaceEntities(s) ==
  LET inside(i) == \E p \in 1..(i - 1) :
                     IsEntityStart(s, p) /\ i <= LettersEnd(s, p) + 1
      kept == SelectSeq([i \in 1..Len(s) |-> i], LAMBDA i : ~ inside(i))
  IN  [k \in 1..Len(kept) |->
         IF IsEntityStart(s, kept[k]) THEN " " ELSE s[kept[k]]]

\* replace(/\s+/g, " "): the first character of a run of whitespace becomes
\* the space, the rest of the run goes
CollapseWs(s) ==
  LET kept == SelectSeq([i \in 1..Len(s) |-> i],
                        LAMBDA i : ~ (IsSpace(s[i]) /\ i > 1
                                        /\ IsSpace(s[i - 1])))
  IN  [k \in 1..Len(kept) |->
         IF IsSpace(s[kept[k]]) THEN " " ELSE s[kept[k]]]

StripTags(html) ==
  CollapseWs(ReplaceEntities(RemoveTags(html)))

\* a string used as a condition: null, undefined and "" are falsy
Truthy(s) == s # Undefined /\ s # <<>>

ExtractMetaTags(html) ==
  LET kept == SelectSeq(html.metas,
                        LAMBDA m : Truthy(m.property) \/ Truthy(m.name))
  IN  [i \in 1..Len(kept) |->
         [property |-> kept[i].property, name |-> kept[i].name,
          content |-> IF kept[i].content = Undefined THEN <<>>
                      ELSE kept[i].content]]

ExtractTitle(html) ==
  IF html.title = Undefined THEN Undefined ELSE Trim(html.title)

ExtractCanonical(html) == html.canonical

ExtractHeadings(html) ==
  LET stripped == [i \in 1..Len(html.headings) |->
                     [level |-> html.headings[i].level,
                      text |-> Trim(StripTags(html.headings[i].inner))]]
  IN  SelectSeq(stripped, LAMBDA h : h.text # <<>>)

-----------------------------------------------------------------------------
(* heading_structure                                                       *)

HeadingLevels == 1..6

PreviewLen == 40
MaxHeadingLen == 70
HeadingChecks == 4

\* a variant of the skip test that also fires when the level drops
IsSkipEitherWay(prev, cur) == cur > prev + 1 \/ prev > cur + 1

\* usedLevels[i] > usedLevels[i - 1] + 1
IsSkip(prev, cur) == cur > prev + 1

\* the issues pushed by the skipped-level loop
RECURSIVE SkipIssues(_, _)
SkipIssues(headings, i) ==
  IF i > Len(headings) THEN <<>>
  ELSE (IF IsSkip(headings[i - 1].level, headings[i].level)
        THEN << [kind |-> "skipped", from |-> headings[i - 1].level,
                 to |-> headings[i].level,
                 preview |-> Slice(headings[i - 1].text, PreviewLen)] >>
        ELSE <<>>)
       \o SkipIssues(headings, i + 1)

\* the issues pushed by the long-heading loop
RECURSIVE LongIssues(_, _)
LongIssues(headings, i) ==
  IF i > Len(headings) THEN <<>>
  ELSE (IF Len(headings[i].text) > MaxHeadingLen
        THEN << [kind |-> "long", level |-> headings[i].level,
                 preview |-> Slice(headings[i].text, PreviewLen),
                 length |-> Len(headings[i].text)] >>
        ELSE <<>>)
       \o LongIssues(headings, i + 1)

\* i.includes("Skipped") on the text of an issue.  Of the fixed wording of
\* the six messages only "Skipped heading level: ..." holds the word; the
\* "long" message also holds a preview of the heading's own text between
\* quotes, and the word may stand there.
IssueIncludesSkipped(issue) ==
  CASE issue.kind = "skipped" -> TRUE
    [] issue.kind = "long" -> Includes(issue.preview, S_Skipped)
    [] OTHER -> FALSE

Score(passed, total) == NatToString(passed) \o <<"/">> \o NatToString(total)

HeadingReport(pageUrl, headings) ==
  LET H1 == Cardinality({i \in 1..Len(headings) : headings[i].level = 1})
      issues ==
        (IF H1 = 0 THEN << [kind |-> "missingH1"] >>
         ELSE IF H1 > 1 THEN << [kind |-> "multipleH1", count |-> H1] >>
         ELSE <<>>)
        \o SkipIssues(headings, 2)
        \o (IF Len(headings) > 0 /\ headings[1].level # 1
            THEN << [kind |-> "firstNotH1", level |-> headings[1].level] >>
            ELSE <<>>)
        \o LongIssues(headings, 1)
        \o (IF Len(headings) = 0 THEN << [kind |-> "noHeadings"] >>
            ELSE <<>>)
      passed ==
        HeadingChecks
          - (IF H1 = 0 THEN 1 ELSE 0)
          - (IF H1 > 1 THEN 1 ELSE 0)
          - (IF \E i \in 1..Len(issues) : IssueIncludesSkipped(issues[i])
             THEN 1 ELSE 0)
          - (IF Len(headings) > 0 /\ headings[1].level # 1 THEN 1 ELSE 0)
  IN  [url |-> pageUrl,
       headingCount |-> Len(headings),
       headings |-> headings,
       hierarchy |-> [l \in HeadingLevels |->
                        Cardinality({i \in 1..Len(headings) :
                                       headings[i].level = l})],
       issues |-> issues,
       outline |-> IF headings = <<>> THEN << "(no headings)" >>
                   ELSE [i \in 1..Len(headings) |->
                           [indent |-> headings[i].level - 1,
                            level |-> headings[i].level,
                            text |-> headings[i].text]],
       score |-> Score(passed, HeadingChecks)]

-----------------------------------------------------------------------------
(* meta_tags                                                               *)

\* a Record<string, string> is a function from its keys to their values
EmptyRecord == [k \in {} |-> <<>>]

RecordSet(r, k, v) ==
  [x \in DOMAIN r \cup {k} |-> IF x = k THEN v ELSE r[x]]

\* !record[key]: the key is missing or its value is ""
Lacks(r, k) == k \notin DOMAIN r \/ r[k] = <<>>

\* the loop that sorts the tags into openGraph, twitter and other
RECURSIVE GroupTags(_, _, _)
GroupTags(tags, i, groups) ==
  IF i > Len(tags) THEN groups
  ELSE LET tag == tags[i]
       IN  GroupTags(tags, i + 1,
             IF StartsWith(tag.property, S_og)
             THEN [groups EXCEPT !.openGraph =
                     RecordSet(@, tag.property, tag.content)]
             ELSE IF StartsWith(tag.name, S_twitter)
                       \/ StartsWith(tag.property, S_twitter)
             THEN [groups EXCEPT !.twitter =
                     RecordSet(@, IF tag.name # Undefined THEN tag.name
                                  ELSE tag.property, tag.content)]
             ELSE IF Truthy(tag.name) /\ tag.name # S_description
             THEN [groups EXCEPT !.other =
                     RecordSet(@, tag.name, tag.content)]
             ELSE groups)

TitleMin == 30
TitleMax == 60
DescMin == 70
DescMax == 160
MetaChecks == 8

NoTip == "(null)"

\* title?.length ?? 0, and `length || null` in the report: <<n>> for a
\* number, <<>> for null
LengthOf(s) == IF s = Undefined THEN 0 ELSE Len(s)

LengthOrNull(n) == IF n = 0 THEN <<>> ELSE <<n>>

\* a variant of the title check that counts a short title as an issue
TitleIssuesStrict(title) ==
  IF ~ Truthy(title) \/ LengthOf(title) < TitleMin
  THEN << "Missing <title> tag" >> ELSE <<>>

\* a variant of the title check that counts a long title as an issue
TitleIssuesLong(title) ==
  IF ~ Truthy(title) \/ LengthOf(title) > TitleMax
  THEN << "Missing <title> tag" >> ELSE <<>>

TitleIssues(title) ==
  IF ~ Truthy(title) THEN << "Missing <title> tag" >> ELSE <<>>

TitleTip(title) ==
  IF ~ Truthy(title)
  THEN "Add a unique, descriptive title (50-60 characters)"
  ELSE IF LengthOf(title) < TitleMin
  THEN "Title is short. Aim for 50-60 characters for better CTR."
  ELSE IF LengthOf(title) > TitleMax
  THEN "Title may be truncated in SERPs. Keep under 60 characters."
  ELSE NoTip

DescTip(description) ==
  IF ~ Truthy(description)
  THEN "Add a meta description (120-160 characters) to improve CTR."
  ELSE IF LengthOf(description) < DescMin
  THEN "Description is short. Aim for 120-160 characters."
  ELSE IF LengthOf(description) > DescMax
  THEN "Description may be truncated. Keep under 160 characters."
  ELSE NoTip

MetaReport(pageUrl, html) ==
  LET tags == ExtractMetaTags(html)
      title == ExtractTitle(html)
      canonical == ExtractCanonical(html)
      descTags == SelectSeq(tags, LAMBDA t : t.name = S_description)
      description == IF descTags = <<>> THEN Undefined
                     ELSE descTags[1].content
      groups == GroupTags(tags, 1,
                  [openGraph |-> EmptyRecord, twitter |-> EmptyRecord,
                   other |-> EmptyRecord])
      issues ==
        TitleIssues(title)
        \o (IF ~ Truthy(description) THEN << "Missing meta description" >>
            ELSE <<>>)
        \o (IF Lacks(groups.openGraph, S_ogTitle)
            THEN << "Missing og:title" >> ELSE <<>>)
        \o (IF Lacks(groups.openGraph, S_ogDescription)
            THEN << "Missing og:description" >> ELSE <<>>)
        \o (IF Lacks(groups.openGraph, S_ogImage)
            THEN << "Missing og:image (no preview image for social shares)" >>
            ELSE <<>>)
        \o (IF Lacks(groups.openGraph, S_ogUrl)
            THEN << "Missing og:url" >> ELSE <<>>)
        \o (IF Lacks(groups.twitter, S_twitterCard)
            THEN << "Missing twitter:card" >> ELSE <<>>)
        \o (IF ~ Truthy(canonical) THEN << "No canonical URL set" >>
            ELSE <<>>)
      passed == MetaChecks - Len(issues)
  IN  [url |-> pageUrl,
       title |-> [value |-> title,
                  length |-> LengthOrNull(LengthOf(title)),
                  ok |-> Truthy(title),
                  tip |-> TitleTip(title)],
       description |-> [value |-> description,
                        length |-> LengthOrNull(LengthOf(description)),
                        ok |-> Truthy(description),
                        tip |-> DescTip(description)],
       canonical |-> canonical,
       openGraph |-> groups.openGraph,
       twitter |-> groups.twitter,
       other |-> groups.other,
       issues |-> issues,
       score |-> Score(passed, MetaChecks)]

-----------------------------------------------------------------------------
(* robots_txt                                                              *)
(*                                                                         *)
(* A url argument is [valid, path]: whether new URL(url) accepts it, and   *)
(* its pathname.  A robots.txt body is the sequence of its trimmed lines,  *)
(* each [key, value]: the lower-cased, trimmed text before the first ":"   *)
(* and the trimmed text after it; key "" is an empty line, key "#" a       *)
(* comment.                                                                *)

RobotsUrl(u) == [valid |-> TRUE, path |-> "/robots.txt"]

\* parseFloat on the values the inputs use: <<n>> for a number, <<>> for NaN
ParseFloat(value) == IF value = "10" THEN <<10>> ELSE <<>>

NoRule == [none |-> TRUE]

\* one pass of the line loop; st is [rules, sitemaps, current]
RobotsLine(st, line) ==
  IF line.key = "" \/ line.key = "#" THEN st
  ELSE IF line.key = "user-agent"
  THEN [st EXCEPT
          !.rules = IF st.current # NoRule THEN Append(@, st.current) ELSE @,
          !.current = [userAgent |-> line.value, allow |-> <<>>,
                       disallow |-> <<>>, crawlDelay |-> <<>>]]
  ELSE IF line.key = "disallow" /\ st.current # NoRule
  THEN IF line.value # ""
       THEN [st EXCEPT !.current.disallow = Append(@, line.value)] ELSE st
  ELSE IF line.key = "allow" /\ st.current # NoRule
  THEN IF line.value # ""
       THEN [st EXCEPT !.current.allow = Append(@, line.value)] ELSE st
  ELSE IF line.key = "crawl-delay" /\ st.current # NoRule
  THEN IF ParseFloat(line.value) # <<>>
       THEN [st EXCEPT !.current.crawlDelay = ParseFloat(line.value)] ELSE st
  ELSE IF line.key = "sitemap"
  THEN [st EXCEPT !.sitemaps = Append(@, line.value)]
  ELSE st

RECURSIVE RobotsLines(_, _, _)
RobotsLines(lines, i, st) ==
  IF i > Len(lines) THEN st
  ELSE RobotsLines(lines, i + 1, RobotsLine(st, lines[i]))

RECURSIVE SumLen(_)
SumLen(lists) ==
  IF lists = <<>> THEN 0 ELSE Len(Head(lists)) + SumLen(Tail(lists))

RobotsNotFound(robotsUrl) ==
  [url |-> robotsUrl, found |-> FALSE, rules |-> <<>>, sitemaps |-> <<>>,
   issues |-> << "No robots.txt found. Search engines will crawl all pages by default." >>,
   summary |-> [text |-> "No robots.txt file exists at this domain."]]

RobotsReport(robotsUrl, lines) ==
  LET st == RobotsLines(lines, 1,
              [rules |-> <<>>, sitemaps |-> <<>>, current |-> NoRule])
      rules == IF st.current # NoRule THEN Append(st.rules, st.current)
               ELSE st.rules
      sitemaps == st.sitemaps
      totalDisallowed == SumLen([i \in 1..Len(rules) |-> rules[i].disallow])
      issues ==
        (IF Len(sitemaps) = 0
         THEN << "No Sitemap directive found. Add one to help search engines discover pages." >>
         ELSE <<>>)
        \o (IF ~ \E i \in 1..Len(rules) : rules[i].userAgent = "*"
            THEN << "No rules for User-agent: *. Consider adding a default rule set." >>
            ELSE <<>>)
        \o (IF totalDisallowed = 0
            THEN << "No Disallow rules. Everything is crawlable (may be intentional)." >>
            ELSE <<>>)
        \o (IF \E i \in 1..Len(rules) :
                 \E k \in 1..Len(rules[i].disallow) : rules[i].disallow[k] = "/"
            THEN << "WARNING: Disallow: / blocks ALL crawling for that user-agent." >>
            ELSE <<>>)
  IN  [url |-> robotsUrl, found |-> TRUE, rules |-> rules,
       sitemaps |-> sitemaps, issues |-> issues,
       summary |-> [blocks |-> Len(rules), disallowed |-> totalDisallowed,
                    sitemaps |-> Len(sitemaps)]]

InvalidUrlError(u) == [error |-> << "Invalid URL: ", u.path >>]

FailedToFetchError(target, message) ==
  [error |-> << "Failed to fetch ", target.path, ": ", message >>]

-----------------------------------------------------------------------------
(* sitemap_check                                                           *)
(*                                                                         *)
(* A sitemap body is [form, entries]: form is "index" when the text holds  *)
(* "<sitemapindex", else "urlset" when it holds "<urlset", else "text"     *)
(* when it starts with "http", else "other"; the entries are the <loc>     *)
(* elements of an index, the <url> blocks of a urlset (each [loc, lastmod],*)
(* "" when the element is not there) or the non-empty lines of a text      *)
(* sitemap.                                                                *)

SitemapUrl(u) ==
  IF u.path = "/" \/ u.path = "" THEN [valid |-> TRUE, path |-> "/sitemap.xml"]
  ELSE u

OkStatus == 200
MaxSitemapUrls == 50000
SampleSize == 10
LastModSample == 5

IsHttps(u) == u \in {"https://example.com/a", "https://example.com/b"}

\* [...new Set(list)]: the first occurrence of each element, in order
RECURSIVE Dedup(_)
Dedup(list) ==
  IF list = <<>> THEN <<>>
  ELSE LET front == Dedup(SubSeq(list, 1, Len(list) - 1))
           last == list[Len(list)]
       IN  IF \E i \in 1..Len(front) : front[i] = last THEN front
           ELSE Append(front, last)

\* a variant that treats an unexpected status as a failed fetch
SitemapNotFoundAsError(sitemapUrl, httpStatus) ==
  FailedToFetchError(sitemapUrl, "unexpected status")

SitemapNotFound(sitemapUrl, httpStatus) ==
  [url |-> sitemapUrl, found |-> FALSE, format |-> "unknown", urlCount |-> 0,
   sampleUrls |-> <<>>, lastModDates |-> <<>>, childSitemaps |-> <<>>,
   issues |-> << [text |-> "Sitemap returned HTTP ${status}. Not found or not accessible.",
                  n |-> httpStatus] >>,
   summary |-> [text |-> "Sitemap not found.", n |-> 0]]

SitemapReport(sitemapUrl, sitemap) ==
  LET format == CASE sitemap.form = "index" -> "index"
                  [] sitemap.form = "urlset" -> "xml"
                  [] sitemap.form = "text" -> "text"
                  [] OTHER -> "unknown"
      withLoc == SelectSeq(sitemap.entries, LAMBDA e : e.loc # "")
      withMod == SelectSeq(sitemap.entries, LAMBDA e : e.lastmod # "")
      childSitemaps == IF format = "index"
                       THEN [i \in 1..Len(sitemap.entries) |->
                               sitemap.entries[i].loc]
                       ELSE <<>>
      urls == IF format = "xml" THEN [i \in 1..Len(withLoc) |-> withLoc[i].loc]
              ELSE IF format = "text"
              THEN [i \in 1..Len(sitemap.entries) |-> sitemap.entries[i].loc]
              ELSE <<>>
      lastModDates == IF format = "xml"
                      THEN [i \in 1..Len(withMod) |-> withMod[i].lastmod]
                      ELSE <<>>
      nonHttps == SelectSeq(urls, LAMBDA u : ~ IsHttps(u))
      unique == {urls[i] : i \in 1..Len(urls)}
      issues ==
        (IF format \in {"xml", "text"}
         THEN (IF Len(urls) = 0 THEN << [text |-> "Sitemap contains 0 URLs.", n |-> 0] >>
               ELSE IF Len(urls) > MaxSitemapUrls
               THEN << [text |-> "Sitemap has ${n} URLs. Max recommended per sitemap is 50,000.",
                        n |-> Len(urls)] >>
               ELSE <<>>)
              \o (IF Len(nonHttps) > 0
                  THEN << [text |-> "${n} URL(s) are not HTTPS.",
                           n |-> Len(nonHttps)] >>
                  ELSE <<>>)
              \o (IF Cardinality(unique) < Len(urls)
                  THEN << [text |-> "${n} duplicate URL(s) found.",
                           n |-> Len(urls) - Cardinality(unique)] >>
                  ELSE <<>>)
         ELSE <<>>)
        \o (IF format = "index" /\ Len(childSitemaps) = 0
            THEN << [text |-> "Sitemap index contains no child sitemaps.",
                     n |-> 0] >>
            ELSE <<>>)
        \o (IF Len(lastModDates) = 0 /\ format = "xml" /\ Len(urls) > 0
            THEN << [text |-> "No <lastmod> dates found. Adding them helps search engines prioritize crawling.",
                     n |-> 0] >>
            ELSE <<>>)
  IN  [url |-> sitemapUrl, found |-> TRUE, format |-> format,
       urlCount |-> IF format = "index" THEN Len(childSitemaps) ELSE Len(urls),
       sampleUrls |-> Slice(urls, SampleSize),
       lastModDates |-> Slice(Dedup(lastModDates), LastModSample),
       childSitemaps |-> childSitemaps,
       issues |-> issues,
       summary |-> IF format = "index"
                   THEN [text |-> "Sitemap index with ${n} child sitemap(s).",
                         n |-> Len(childSitemaps)]
                   ELSE [text |-> "${format} sitemap with ${n} URL(s).",
                         n |-> Len(urls)]]

-----------------------------------------------------------------------------
(* readability                                                             *)
(*                                                                         *)
(* Scores are kept as whole numbers of tenths (hundredths for the average  *)
(* syllables per word): Math.round(x * 10) / 10 is the integer             *)
(* Math.round(x * 10).  The quotients are taken exactly.                   *)

Vowels == {"a", "e", "i", "o", "u", "y"}

\* Math.round(num / den) for den > 0: the nearest integer, the larger one
\* on a tie
Round(num, den) == (2 * num + den) \div (2 * den)

\* a variant that applies no lower limit
MaxOff(a, b) == IF a = 0 THEN b ELSE a

Max(a, b) == IF a > b THEN a ELSE b

\* the vowel-group loop of countSyllables: one for each vowel that follows
\* no vowel
VowelGroups(word) ==
  Cardinality({i \in 1..Len(word) :
                 word[i] \in Vowels /\ (i = 1 \/ word[i - 1] \notin Vowels)})

CountSyllables(w) ==
  LET lower == ToLowerCase(w)
      word == SelectSeq(lower, LAMBDA c : c \in LowerLetters)
      n == Len(word)
      c0 == VowelGroups(word)
      c1 == IF word[n] = "e" /\ c0 > 1 THEN c0 - 1 ELSE c0
      c2 == IF n >= 2 /\ word[n - 1] = "l" /\ word[n] = "e" /\ n > 2
               /\ word[n - 2] \notin Vowels
            THEN c1 + 1 ELSE c1
  IN  IF n <= 3 THEN 1 ELSE IF c2 = 0 THEN 1 ELSE c2

\* the syllables of the words, summed half by half
RECURSIVE SumSyllables(_)
SumSyllables(words) ==
  IF words = <<>> THEN 0
  ELSE IF Len(words) = 1 THEN CountSyllables(words[1])
       ELSE LET half == Len(words) \div 2
            IN  SumSyllables(SubSeq(words, 1, half))
                  + SumSyllables(SubSeq(words, half + 1, Len(words)))

SentenceEnds == {".", "!", "?"}

\* split(/[.!?]+/), then trim, then drop the empty parts
SplitSentences(text) ==
  LET parts == SplitRuns(text, SentenceEnds)
      trimmed == [i \in 1..Len(parts) |-> Trim(parts[i])]
  IN  SelectSeq(trimmed, LAMBDA p : Len(p) > 0)

UpperLetters == {"A","B","C","D","E","F","G","H","I","J","K","L","M","N","O","P","Q","R","S","T","U","V","W","X","Y","Z"}

\* the characters splitWords keeps: [a-zA-Z0-9\s'-]
WordChars == TokenChars \cup UpperLetters

SplitWords(text) ==
  LET clean == [i \in 1..Len(text) |->
                  IF text[i] \in WordChars THEN text[i] ELSE " "]
  IN  SelectSeq(SplitWs(clean), LAMBDA w : Len(w) > 0)

\* the end of the whitespace that starts at position i
RECURSIVE SpaceEnd(_, _)
SpaceEnd(s, i) ==
  IF i + 1 <= Len(s) /\ IsSpace(s[i + 1]) THEN SpaceEnd(s, i + 1) ELSE i

\* a match of /\n\s*\n/ starts at j: a newline with another newline in the
\* whitespace that follows it
IsCutStart(s, j) ==
  s[j] = "\n" /\ \E k \in (j + 1)..SpaceEnd(s, j) : s[k] = "\n"

\* split(/\n\s*\n/): a cut runs from a newline to the last newline of the
\* whitespace that follows it.  A piece starts at position i.
RECURSIVE SplitParagraphsFrom(_, _)
SplitParagraphsFrom(s, i) ==
  IF \E j \in i..Len(s) : IsCutStart(s, j)
  THEN LET c == CHOOSE j \in i..Len(s) :
                  IsCutStart(s, j) /\ \A k \in i..(j - 1) : ~ IsCutStart(s, k)
           ends == {k \in (c + 1)..SpaceEnd(s, c) : s[k] = "\n"}
           last == CHOOSE k \in ends : \A m \in ends : m <= k
       IN  << SubSeq(s, i, c - 1) >> \o SplitParagraphsFrom(s, last + 1)
  ELSE << SubSeq(s, i, Len(s)) >>

Paragraphs(text) ==
  SelectSeq(SplitParagraphsFrom(text, 1), LAMBDA p : Len(Trim(p)) > 0)

\* thresholds in tenths
InterpretFleschEase(score) ==
  IF score >= 900 THEN "Very Easy (5th grade)"
  ELSE IF score >= 800 THEN "Easy (6th grade)"
  ELSE IF score >= 700 THEN "Fairly Easy (7th grade)"
  ELSE IF score >= 600 THEN "Standard (8th-9th grade)"
  ELSE IF score >= 500 THEN "Fairly Difficult (10th-12th grade)"
  ELSE IF score >= 300 THEN "Difficult (college level)"
  ELSE "Very Difficult (graduate level)"

InterpretGradeLevel(grade) ==
  IF grade <= 50 THEN "Elementary school level"
  ELSE IF grade <= 80 THEN "Middle school level"
  ELSE IF grade <= 120 THEN "High school level"
  ELSE IF grade <= 160 THEN "College level"
  ELSE "Graduate level"

MinWords == 10
WordsPerMinute == 238

TooShortError ==
  [error |-> << "Text too short for meaningful analysis. Provide at least 10 words." >>]

\* a variant whose guard also rejects a text of exactly MinWords words
ReadabilityStrictGuard(text) ==
  LET words == SplitWords(text)
      paragraphs == Paragraphs(text)
      W == Len(words)
      S == Max(Len(SplitSentences(text)), 1)
      Syl == SumSyllables(words)
      \* 206.835 - 1.015 * (W / S) - 84.6 * (Syl / W), in tenths
      ease == Round(206835 * S * W - 1015 * W * W - 84600 * Syl * S,
                    100 * S * W)
      clampedEase == Max(0, Min(1000, ease))
      \* 0.39 * (W / S) + 11.8 * (Syl / W) - 15.59, in tenths
      grade == Round(39 * W * W + 1180 * Syl * S - 1559 * S * W, 10 * S * W)
      clampedGrade == Max(0, grade)
      tips ==
        (IF W > 25 * S
         THEN << [text |-> "Sentences are long. Break them up for better readability.",
                  n |-> Round(W, S)] >>
         ELSE <<>>)
        \o (IF 10 * Syl > 17 * W
            THEN << [text |-> "Many complex words. Use simpler alternatives where possible.",
                     n |-> 0] >>
            ELSE <<>>)
        \o (IF clampedEase < 500
            THEN << [text |-> "Text is difficult to read. Aim for a Flesch score of 60+ for general audiences.",
                     n |-> 0] >>
            ELSE <<>>)
        \o (IF Len(paragraphs) = 1 /\ W > 100
            THEN << [text |-> "Single large paragraph. Break into smaller paragraphs for better scannability.",
                     n |-> 0] >>
            ELSE <<>>)
  IN  IF W <= MinWords THEN TooShortError
      ELSE [fleschReadingEase |->
              [score |-> clampedEase,
               interpretation |-> InterpretFleschEase(clampedEase)],
            fleschKincaidGrade |->
              [score |-> clampedGrade,
               interpretation |-> InterpretGradeLevel(clampedGrade)],
            stats |->
              [wordCount |-> W, sentenceCount |-> S, syllableCount |-> Syl,
               avgWordsPerSentence |-> Round(10 * W, S),
               avgSyllablesPerWord |-> Round(100 * Syl, W),
               readingTimeMinutes |-> Round(10 * W, WordsPerMinute),
               paragraphCount |-> Len(paragraphs)],
            tips |-> tips]

Readability(text) ==
  LET words == SplitWords(text)
      paragraphs == Paragraphs(text)
      W == Len(words)
      S == Max(Len(SplitSentences(text)), 1)
      Syl == SumSyllables(words)
      \* 206.835 - 1.015 * (W / S) - 84.6 * (Syl / W), in tenths
      ease == Round(206835 * S * W - 1015 * W * W - 84600 * Syl * S,
                    100 * S * W)
      clampedEase == Max(0, Min(1000, ease))
      \* 0.39 * (W / S) + 11.8 * (Syl / W) - 15.59, in tenths
      grade == Round(39 * W * W + 1180 * Syl * S - 1559 * S * W, 10 * S * W)
      clampedGrade == Max(0, grade)
      tips ==
        (IF W > 25 * S
         THEN << [text |-> "Sentences are long. Break them up for better readability.",
                  n |-> Round(W, S)] >>
         ELSE <<>>)
        \o (IF 10 * Syl > 17 * W
            THEN << [text |-> "Many complex words. Use simpler alternatives where possible.",
                     n |-> 0] >>
            ELSE <<>>)
        \o (IF clampedEase < 500
            THEN << [text |-> "Text is difficult to read. Aim for a Flesch score of 60+ for general audiences.",
                     n |-> 0] >>
            ELSE <<>>)
        \o (IF Len(paragraphs) = 1 /\ W > 100
            THEN << [text |-> "Single large paragraph. Break into smaller paragraphs for better scannability.",
                     n |-> 0] >>
            ELSE <<>>)
  IN  IF W < MinWords THEN TooShortError
      ELSE [fleschReadingEase |->
              [score |-> clampedEase,
               interpretation |-> InterpretFleschEase(clampedEase)],
            fleschKincaidGrade |->
              [score |-> clampedGrade,
               interpretation |-> InterpretGradeLevel(clampedGrade)],
            stats |->
              [wordCount |-> W, sentenceCount |-> S, syllableCount |-> Syl,
               avgWordsPerSentence |-> Round(10 * W, S),
               avgSyllablesPerWord |-> Round(100 * Syl, W),
               readingTimeMinutes |-> Round(10 * W, WordsPerMinute),
               paragraphCount |-> Len(paragraphs)],
            tips |-> tips]

-----------------------------------------------------------------------------
(* Inputs of keyword_density                                               *)

\* the most pieces a text is put together from
MaxPieces == 3

ExampleText ==
  <<"t","h","e"," ","c","a","t"," ","s","a","t"," ","o","n"," ",
    "t","h","e"," ","m","a","t","."," ","t","h","e"," ","c","a","t"," ",
    "r","a","n",".">>

\* seventeen distinct content words: more than either list limit
LongText ==
  <<"k","a"," ","k","b"," ","k","c"," ","k","d"," ","k","e"," ","k","f"," ",
    "k","g"," ","k","h"," ","k","i"," ","k","j"," ","k","k"," ","k","l"," ",
    "k","m"," ","k","n"," ","k","o"," ","k","p"," ","k","q">>

KdPieces ==
  { <<"t","h","e">>, <<"c","a","t">>, <<"a","a">>,
    <<" ","C","a","t",".","\n","a"," ">>,
    <<"k","o"," ","k","p"," ","k","q">> }

KdPrefixes == { <<>>, ExampleText, LongText }

KdTargets ==
  { Undefined, <<>>, <<"c","a","t">>, <<"T","h","e">>, <<"a","a"," ","a","a">>,
    <<" ","C","a","t"," ","t","h","e"," ">> }

PieceSeqs ==
  UNION {[1..n -> KdPieces] : n \in 0..MaxPieces}

KdTextOf(prefix, pieces) ==
  IF pieces = <<>> THEN prefix
  ELSE IF prefix = <<>> THEN JoinSpace(pieces)
       ELSE prefix \o <<" ">> \o JoinSpace(pieces)

\* no tool handler runs
ServerIdle ==
  /\ rdText = <<>>
  /\ tool = "none"
  /\ url = [valid |-> FALSE, path |-> ""]
  /\ pc = "idle"
  /\ timerArmed = FALSE
  /\ fetches = 0
  /\ failure = "none"
  /\ status = 0
  /\ body = [none |-> TRUE]
  /\ outcome = [kind |-> "none"]
  /\ reply = Pending

KdInit ==
  /\ ServerIdle
  /\ calls = <<>>
  /\ \E prefix \in KdPrefixes, pieces \in PieceSeqs :
       kdText = KdTextOf(prefix, pieces)
  /\ kdTarget \in KdTargets
  /\ kdWords = <<>>
  /\ kdOut = Pending

\* one call of keywordDensity(text, targetKeyword)
KeywordDensityCall ==
  /\ kdOut = Pending
  /\ kdWords' = Tokenize(kdText)
  /\ kdOut' = KeywordDensity(kdText, kdTarget)
  /\ UNCHANGED <<kdText, kdTarget, serverVars, calls>>

KdNext == KeywordDensityCall

SpecKD == KdInit /\ [][KdNext]_vars

-----------------------------------------------------------------------------
(* The tool handlers                                                       *)

Tools ==
  {"meta_tags", "robots_txt", "sitemap_check", "keyword_density",
   "readability", "heading_structure"}

\* the tools that go through fetchPage
PageTools == {"meta_tags", "heading_structure"}

\* the statuses a response may carry
Statuses == {200, 204, 404}

\* what an analyzer call comes to: a returned value or a thrown Error
Returned(value) == [kind |-> "return", value |-> value]
Threw(message) == [kind |-> "throw", message |-> message]
NoOutcome == [kind |-> "none"]

TextContent(text) == [content |-> << [type |-> "text", text |-> text] >>]

\* a variant of the handler without the catch block
HandlerNoCatch(o) ==
  IF o.kind = "return" THEN TextContent(o.value)
  ELSE [exception |-> o.message]

\* try { result = await analyzer(...); return text(result) }
\* catch (e) { return text(JSON.stringify({ error: e.message })) }
Handler(o) ==
  IF o.kind = "return" THEN TextContent(o.value)
  ELSE TextContent([error |-> << o.message >>])

\* the call ends with outcome o; fetchPage's finally block clears the timer
Finish(o) ==
  /\ outcome' = o
  /\ reply' = Handler(o)
  /\ timerArmed' = FALSE
  /\ pc' = "done"

-----------------------------------------------------------------------------
(* Inputs of the tool handlers                                             *)

\* the most headings of a page, lines of a robots.txt, entries of a sitemap
MaxHeadings == 3
MaxLines == 3
MaxEntries == 2

SeqsUpTo(S, n) == UNION {[1..k -> S] : k \in 0..n}

Urls ==
  { [valid |-> FALSE, path |-> "not a url"],
    [valid |-> TRUE, path |-> "/"],
    [valid |-> TRUE, path |-> "/page"] }

NoUrl == [valid |-> FALSE, path |-> ""]

HeadingShort ==
  <<"<","b",">">> \o S_Intro \o <<"<","/","b",">","&","a","m","p",";">>

HeadingLong == Filler(MaxHeadingLen + 1)

HeadingLongSkipped == S_Skipped \o Filler(MaxHeadingLen + 1 - Len(S_Skipped))

\* every level with a short text, the first levels with the long texts, and
\* a heading that is empty once stripped
HeadingElems ==
  [level : HeadingLevels, inner : {HeadingShort}]
    \cup [level : {1, 2}, inner : {HeadingLong, HeadingLongSkipped}]
    \cup { [level |-> 1, inner |-> <<"&","n","b","s","p",";">>] }

NoMeta == [property |-> Undefined, name |-> Undefined, content |-> Undefined]

Named(name, content) ==
  [property |-> Undefined, name |-> name, content |-> content]

Property(property, content) ==
  [property |-> property, name |-> Undefined, content |-> content]

OgOrder == << S_ogTitle, S_ogDescription, S_ogImage, S_ogUrl >>

\* the <meta> elements of a page with the given description, Open Graph
\* properties and twitter:card form
MetasOf(desc, ogs, dupTitle, tw) ==
  << NoMeta, Named(S_viewport, <<"w">>) >>
  \o (IF desc = Undefined THEN <<>> ELSE << Named(S_description, desc) >>)
  \o [i \in 1..Len(SelectSeq(OgOrder, LAMBDA p : p \in ogs)) |->
        Property(SelectSeq(OgOrder, LAMBDA p : p \in ogs)[i], <<"v">>)]
  \o (IF dupTitle THEN << Property(S_ogTitle, <<>>) >> ELSE <<>>)
  \o (CASE tw = "name" -> << Named(S_twitterCard, <<"s">>) >>
        [] tw = "property" -> << Property(S_twitterCard, <<"s">>) >>
        [] OTHER -> <<>>)

MetaPages ==
  { [title |-> t, metas |-> MetasOf(d, ogs, dup, tw), canonical |-> c,
     headings |-> <<>>] :
      t \in {Undefined, <<>>, S_Short, <<" ">> \o Filler(TitleMin) \o <<" ">>,
             Filler(TitleMax + 1)},
      d \in {Undefined, <<>>, Filler(DescMin), Filler(DescMax + 1)},
      ogs \in SUBSET {S_ogTitle, S_ogDescription, S_ogImage, S_ogUrl},
      dup \in BOOLEAN,
      tw \in {"none", "name", "property"},
      c \in {Undefined, <<>>, <<"u">>} }

HeadingPages ==
  { [title |-> Undefined, metas |-> <<>>, canonical |-> Undefined,
     headings |-> hs] : hs \in SeqsUpTo(HeadingElems, MaxHeadings) }

PageBodies(t) ==
  IF t = "heading_structure" THEN HeadingPages ELSE MetaPages

RobotsLineKinds ==
  { [key |-> "", value |-> ""], [key |-> "#", value |-> ""],
    [key |-> "user-agent", value |-> "*"],
    [key |-> "user-agent", value |-> "bot"],
    [key |-> "disallow", value |-> "/"], [key |-> "disallow", value |-> ""],
    [key |-> "allow", value |-> "/public"],
    [key |-> "crawl-delay", value |-> "10"],
    [key |-> "crawl-delay", value |-> "soon"],
    [key |-> "sitemap", value |-> "https://example.com/sitemap.xml"] }

RobotsBodies == SeqsUpTo(RobotsLineKinds, MaxLines)

SitemapEntries ==
  { [loc |-> "https://example.com/a", lastmod |-> "2024-01-01"],
    [loc |-> "https://example.com/b", lastmod |-> ""],
    [loc |-> "http://example.com/c", lastmod |-> "2024-01-01"],
    [loc |-> "", lastmod |-> "2024-02-02"] }

SitemapBodies ==
  { b \in [form : {"index", "urlset", "text", "other"},
           entries : SeqsUpTo(SitemapEntries, MaxEntries)] :
      /\ b.form = "text" =>
           b.entries # <<>> /\ \A i \in 1..Len(b.entries) : b.entries[i].loc # ""
      /\ b.form = "other" => b.entries = <<>> }

RdTwoWords ==
  <<"T","o","o"," ","s","h","o","r","t",".">>

RdTenWords ==
  <<"T","h","e"," ","c","a","t"," ","s","a","t"," ","o","n"," ","t","h","e",
    " ","m","a","t","."," ","T","h","e"," ","d","o","g"," ","r","a","n"," ",
    "o","f","f",".">>

RdNineWords ==
  <<"T","h","e"," ","c","a","t"," ","s","a","t"," ","o","n"," ","t","h","e",
    " ","m","a","t","."," ","T","h","e"," ","d","o","g"," ","r","a","n",
    ".">>

RdHardWords ==
  <<"I","n","c","o","m","p","r","e","h","e","n","s","i","b","l","e"," ","o",
    "r","g","a","n","i","z","a","t","i","o","n","a","l"," ","r","e","s","p",
    "o","n","s","i","b","i","l","i","t","i","e","s"," ","u","n","q","u","e",
    "s","t","i","o","n","a","b","l","y"," ","c","h","a","r","a","c","t","e",
    "r","i","z","e"," ","i","n","t","e","r","n","a","t","i","o","n","a","l",
    " ","t","e","l","e","c","o","m","m","u","n","i","c","a","t","i","o","n",
    "s","\n","\n","i","n","f","r","a","s","t","r","u","c","t","u","r","e",
    " ","n","o","t","w","i","t","h","s","t","a","n","d","i","n","g"," ","i",
    "n","s","t","i","t","u","t","i","o","n","a","l"," ","m","i","s","u","n",
    "d","e","r","s","t","a","n","d","i","n","g","s">>

\* punctuation and white space only: no word
RdNoWords == <<"?","!"," ",".",".","."," ","\n">>

RdTexts == { <<>>, RdNoWords, RdTwoWords, RdNineWords, RdTenWords, RdHardWords }

\* words of one character and punctuation only: no token
KdNoTokens == <<"I"," ","a"," ","!">>

ServerKdTexts == { <<>>, KdNoTokens, ExampleText }

NoBody == [none |-> TRUE]

-----------------------------------------------------------------------------
(* One call of a tool handler                                              *)

ServerInit ==
  /\ tool \in Tools
  /\ url \in (IF tool \in PageTools THEN {[valid |-> TRUE, path |-> "/page"]}
              ELSE IF tool \in {"robots_txt", "sitemap_check"} THEN Urls
              ELSE {NoUrl})
  /\ kdText \in (IF tool = "keyword_density" THEN ServerKdTexts ELSE {<<>>})
  /\ kdTarget \in (IF tool = "keyword_density"
                   THEN {Undefined, <<"c","a","t">>} ELSE {Undefined})
  /\ kdWords = <<>>
  /\ kdOut = Pending
  /\ rdText \in (IF tool = "readability" THEN RdTexts ELSE {<<>>})
  /\ pc = "start"
  /\ timerArmed = FALSE
  /\ fetches = 0
  /\ failure = "none"
  /\ status = 0
  /\ body = NoBody
  /\ outcome = NoOutcome
  /\ reply = Pending
  /\ calls = <<>>

\* fetchPage up to its first await: arm the abort timer, issue the fetch
FetchPageStart ==
  /\ tool \in PageTools
  /\ pc = "start"
  /\ timerArmed' = TRUE
  /\ fetches' = fetches + 1
  /\ pc' = "fetching"
  /\ UNCHANGED <<calls, tool, url, kdVars, rdText, failure, status, body, outcome,
                 reply>>

\* the fetch of fetchPage resolves with a response of any status; fetchPage
\* goes on to await res.text()
FetchPageResponds ==
  /\ tool \in PageTools
  /\ pc = "fetching"
  /\ \E st \in Statuses : status' = st
  /\ pc' = "reading"
  /\ UNCHANGED <<calls, tool, url, kdVars, rdText, timerArmed, fetches, failure,
                 body, outcome, reply>>

\* a variant in which a failed fetch is tried once more
FetchPageFailsRetry ==
  /\ tool \in PageTools
  /\ pc = "fetching"
  /\ failure' = "network"
  /\ IF fetches < 2
     THEN pc' = "start" /\ timerArmed' = FALSE /\ UNCHANGED <<outcome, reply>>
     ELSE Finish(Threw("fetch failed"))
  /\ UNCHANGED <<calls, tool, url, kdVars, rdText, fetches, status, body>>

\* the fetch of fetchPage rejects (network failure): the Error passes
\* through fetchPage and the analyzer to the handler
FetchPageFails ==
  /\ tool \in PageTools
  /\ pc = "fetching"
  /\ failure' = "network"
  /\ Finish(Threw("fetch failed"))
  /\ UNCHANGED <<calls, tool, url, kdVars, rdText, fetches, status, body>>

\* the 15 s timer fires and aborts the pending fetch or body read
FetchPageTimesOut ==
  /\ tool \in PageTools
  /\ pc \in {"fetching", "reading"}
  /\ timerArmed
  /\ failure' = "abort"
  /\ Finish(Threw("This operation was aborted"))
  /\ UNCHANGED <<calls, tool, url, kdVars, rdText, fetches, status, body>>

\* res.text() rejects while the body is read
FetchPageBodyFails ==
  /\ tool \in PageTools
  /\ pc = "reading"
  /\ failure' = "body"
  /\ Finish(Threw("terminated"))
  /\ UNCHANGED <<calls, tool, url, kdVars, rdText, fetches, status, body>>

\* res.text() resolves; metaTags analyzes the markup and returns its report
MetaTagsBody ==
  /\ tool = "meta_tags"
  /\ pc = "reading"
  /\ \E html \in PageBodies(tool) :
       /\ body' = html
       /\ Finish(Returned(MetaReport(url, html)))
  /\ UNCHANGED <<calls, tool, url, kdVars, rdText, fetches, failure, status>>

\* res.text() resolves; headingStructure analyzes the markup and returns
HeadingStructureBody ==
  /\ tool = "heading_structure"
  /\ pc = "reading"
  /\ \E html \in PageBodies(tool) :
       /\ body' = html
       /\ Finish(Returned(HeadingReport(url, ExtractHeadings(html))))
  /\ UNCHANGED <<calls, tool, url, kdVars, rdText, fetches, failure, status>>

\* robotsTxt up to its first await: parse the url, issue the fetch
RobotsStart ==
  /\ tool = "robots_txt"
  /\ pc = "start"
  /\ IF url.valid
     THEN /\ fetches' = fetches + 1
          /\ pc' = "fetching"
          /\ UNCHANGED <<timerArmed, outcome, reply>>
     ELSE /\ Finish(Returned(InvalidUrlError(url)))
          /\ UNCHANGED fetches
  /\ UNCHANGED <<calls, tool, url, kdVars, rdText, failure, status, body>>

\* the fetch resolves: the body is read only when the status is 200
RobotsResponds ==
  /\ tool = "robots_txt"
  /\ pc = "fetching"
  /\ \E st \in Statuses :
       /\ status' = st
       /\ IF st = OkStatus
          THEN pc' = "reading" /\ UNCHANGED <<timerArmed, outcome, reply>>
          ELSE Finish(Returned(RobotsNotFound(RobotsUrl(url))))
  /\ UNCHANGED <<calls, tool, url, kdVars, rdText, fetches, failure, body>>

\* the fetch or the body read rejects: robotsTxt catches and returns an error
RobotsFetchFails ==
  /\ tool = "robots_txt"
  /\ pc \in {"fetching", "reading"}
  /\ failure' = IF pc = "fetching" THEN "network" ELSE "body"
  /\ Finish(Returned(FailedToFetchError(RobotsUrl(url),
                       IF pc = "fetching" THEN "fetch failed"
                       ELSE "terminated")))
  /\ UNCHANGED <<calls, tool, url, kdVars, rdText, fetches, status, body>>

RobotsBody ==
  /\ tool = "robots_txt"
  /\ pc = "reading"
  /\ \E lines \in RobotsBodies :
       /\ body' = [lines |-> lines]
       /\ Finish(Returned(RobotsReport(RobotsUrl(url), lines)))
  /\ UNCHANGED <<calls, tool, url, kdVars, rdText, fetches, failure, status>>

SitemapStart ==
  /\ tool = "sitemap_check"
  /\ pc = "start"
  /\ IF url.valid
     THEN /\ fetches' = fetches + 1
          /\ pc' = "fetching"
          /\ UNCHANGED <<timerArmed, outcome, reply>>
     ELSE /\ Finish(Returned(InvalidUrlError(url)))
          /\ UNCHANGED fetches
  /\ UNCHANGED <<calls, tool, url, kdVars, rdText, failure, status, body>>

\* the fetch resolves: sitemapCheck notes the status and reads the body
SitemapResponds ==
  /\ tool = "sitemap_check"
  /\ pc = "fetching"
  /\ \E st \in Statuses : status' = st
  /\ pc' = "reading"
  /\ UNCHANGED <<calls, tool, url, kdVars, rdText, timerArmed, fetches, failure,
                 body, outcome, reply>>

SitemapFetchFails ==
  /\ tool = "sitemap_check"
  /\ pc \in {"fetching", "reading"}
  /\ failure' = IF pc = "fetching" THEN "network" ELSE "body"
  /\ Finish(Returned(FailedToFetchError(SitemapUrl(url),
                       IF pc = "fetching" THEN "fetch failed"
                       ELSE "terminated")))
  /\ UNCHANGED <<calls, tool, url, kdVars, rdText, fetches, status, body>>

SitemapBody ==
  /\ tool = "sitemap_check"
  /\ pc = "reading"
  /\ \E b \in SitemapBodies :
       /\ body' = b
       /\ Finish(Returned(IF status # OkStatus
                          THEN SitemapNotFound(SitemapUrl(url), status)
                          ELSE SitemapReport(SitemapUrl(url), b)))
  /\ UNCHANGED <<calls, tool, url, kdVars, rdText, fetches, failure, status>>

KeywordDensityTool ==
  /\ tool = "keyword_density"
  /\ pc = "start"
  /\ kdWords' = Tokenize(kdText)
  /\ kdOut' = KeywordDensity(kdText, kdTarget)
  /\ Finish(Returned(KeywordDensity(kdText, kdTarget)))
  /\ UNCHANGED <<calls, tool, url, kdText, kdTarget, rdText, fetches, failure,
                 status, body>>

ReadabilityTool ==
  /\ tool = "readability"
  /\ pc = "start"
  /\ Finish(Returned(Readability(rdText)))
  /\ UNCHANGED <<calls, tool, url, kdVars, rdText, fetches, failure, status, body>>

ServerNext ==
  \/ FetchPageStart
  \/ FetchPageResponds
  \/ FetchPageFails
  \/ FetchPageTimesOut
  \/ FetchPageBodyFails
  \/ MetaTagsBody
  \/ HeadingStructureBody
  \/ RobotsStart
  \/ RobotsResponds
  \/ RobotsFetchFails
  \/ RobotsBody
  \/ SitemapStart
  \/ SitemapResponds
  \/ SitemapFetchFails
  \/ SitemapBody
  \/ KeywordDensityTool
  \/ ReadabilityTool

SpecServer == ServerInit /\ [][ServerNext]_vars

-----------------------------------------------------------------------------
(* Calls of the readability tool on texts put together from pieces         *)

\* the most pieces a text is put together from
MaxRdPieces == 3

\* eight words of five or six syllables each, in one sentence
RdHardEight ==
  <<"i","n","t","e","r","n","a","t","i","o","n","a","l"," ",
    "o","r","g","a","n","i","z","a","t","i","o","n","a","l"," ",
    "r","e","s","p","o","n","s","i","b","i","l","i","t","i","e","s"," ",
    "u","n","q","u","e","s","t","i","o","n","a","b","l","y"," ",
    "i","n","t","e","r","n","a","t","i","o","n","a","l"," ",
    "o","r","g","a","n","i","z","a","t","i","o","n","a","l"," ",
    "r","e","s","p","o","n","s","i","b","i","l","i","t","i","e","s"," ",
    "u","n","q","u","e","s","t","i","o","n","a","b","l","y">>

RdPrefixes == { <<>>, RdNineWords, RdTenWords, RdHardEight }

\* no word; one word and a sentence end; three words with an apostrophe, a
\* hyphen and a digit; two long words; a paragraph break and two words
RdPieces ==
  { <<"?","!">>,
    <<"d","o","g",".">>,
    <<"i","t","'","s"," ","a","-","b",","," ","4">>,
    <<"u","n","q","u","e","s","t","i","o","n","a","b","l","y"," ",
      "i","n","t","e","r","n","a","t","i","o","n","a","l">>,
    <<"\n","\n","T","h","e"," ","e","n","d">> }

RdPieceSeqs ==
  UNION {[1..n -> RdPieces] : n \in 0..MaxRdPieces}

RdInit ==
  /\ tool = "readability"
  /\ url = NoUrl
  /\ kdText = <<>>
  /\ kdTarget = Undefined
  /\ kdWords = <<>>
  /\ kdOut = Pending
  /\ \E prefix \in RdPrefixes, pieces \in RdPieceSeqs :
       rdText = KdTextOf(prefix, pieces)
  /\ pc = "start"
  /\ timerArmed = FALSE
  /\ fetches = 0
  /\ failure = "none"
  /\ status = 0
  /\ body = NoBody
  /\ outcome = NoOutcome
  /\ reply = Pending
  /\ calls = <<>>

RdNext == ReadabilityTool

SpecRD == RdInit /\ [][RdNext]_vars

-----------------------------------------------------------------------------
(* Properties of keyword_density                                           *)

KdReported == kdOut # Pending /\ "totalWords" \in DOMAIN kdOut

KdJoined == JoinSpace(kdWords)

KdTargetGiven == kdTarget # Undefined /\ kdTarget # <<>>

KdTargetPhrase == Trim(ToLowerCase(kdTarget))

KdMultiToken == KdTargetGiven /\ Len(SplitWs(KdTargetPhrase)) > 1

\* every 0-based position of the joined token stream where the phrase starts
PhraseStarts ==
  {p \in 0..(Len(KdJoined) - 1) : MatchAt(KdJoined, KdTargetPhrase, p + 1)}

\* the starts a left-to-right scan keeps: a start is kept exactly when no
\* kept start before it covers it
IsScanSelection(S) ==
  \A p \in PhraseStarts :
    p \in S <=> ~ \E q \in S : q < p /\ p < q + Len(KdTargetPhrase)

Window(n, i) == SubSeq(kdWords, i, i + n - 1)

WindowStarts(n) == 1..(Len(kdWords) - n + 1)

Occurrences(n, members) ==
  Cardinality({i \in WindowStarts(n) : Window(n, i) = members})

FirstSeen(n, members) ==
  CHOOSE i \in WindowStarts(n) :
    /\ Window(n, i) = members
    /\ \A j \in WindowStarts(n) : Window(n, j) = members => i <= j

HasStopWord(members) == \E k \in 1..Len(members) : members[k] \in STOP_WORDS

\* the three ranked lists as sequences of [members, count], with the window
\* size and the length limit of each
RankedLists ==
  << [n |-> 1, limit |-> TopSingleLimit,
      list |-> [i \in 1..Len(kdOut.topSingleWords) |->
                  [members |-> <<kdOut.topSingleWords[i].word>>,
                   count |-> kdOut.topSingleWords[i].count]]],
     [n |-> 2, limit |-> TopNgramLimit,
      list |-> [i \in 1..Len(kdOut.topBigrams) |->
                  [members |-> SplitSpace(kdOut.topBigrams[i].phrase),
                   count |-> kdOut.topBigrams[i].count]]],
     [n |-> 3, limit |-> TopNgramLimit,
      list |-> [i \in 1..Len(kdOut.topTrigrams) |->
                  [members |-> SplitSpace(kdOut.topTrigrams[i].phrase),
                   count |-> kdOut.topTrigrams[i].count]]] >>

\* C8: no entry of topSingleWords is a stop word and no entry of topBigrams
\* or topTrigrams has a stop word among its members; every entry is a window
\* of the full token stream, counted over that stream, and a stop-word-free
\* window is missing from a list only when the list is full.
C8_NoStopWords ==
  KdReported =>
    \A r \in 1..3 :
      LET R == RankedLists[r]
      IN  /\ \A i \in 1..Len(R.list) :
               /\ ~ HasStopWord(R.list[i].members)
               /\ Len(R.list[i].members) = R.n
               /\ R.list[i].count = Occurrences(R.n, R.list[i].members)
               /\ R.list[i].count >= 1
          /\ \A w \in WindowStarts(R.n) :
               ~ HasStopWord(Window(R.n, w)) =>
                  \/ Len(R.list) = R.limit
                  \/ \E i \in 1..Len(R.list) :
                       R.list[i].members = Window(R.n, w)

\* a report on a token stream in which a stop word stands next to content
\* words, with a bigram and a single word listed
C8_Witness ==
  /\ KdReported
  /\ kdOut.topBigrams # <<>>
  /\ kdOut.topSingleWords # <<>>
  /\ \E w \in WindowStarts(2) :
       HasStopWord(Window(2, w)) /\ Window(2, w)[1] \notin STOP_WORDS

\* a ranks before b: more occurrences, or as many and first seen earlier
RanksBefore(n, a, b) ==
  \/ Occurrences(n, a) > Occurrences(n, b)
  \/ /\ Occurrences(n, a) = Occurrences(n, b)
     /\ FirstSeen(n, a) < FirstSeen(n, b)

\* C9: each ranked list is sorted by descending count, entries with equal
\* counts keep the order in which they were first seen, and the list holds
\* at most 15 single words (10 bigrams, 10 trigrams), the first ones in that
\* order.
C9_RankedTopN ==
  KdReported =>
    \A r \in 1..3 :
      LET R == RankedLists[r]
          listed == {R.list[i].members : i \in 1..Len(R.list)}
          candidates == {Window(R.n, w) : w \in
                           {v \in WindowStarts(R.n) :
                              ~ HasStopWord(Window(R.n, v))}}
      IN  /\ Len(R.list) = Min(R.limit, Cardinality(candidates))
          /\ listed \subseteq candidates
          /\ \A i \in 1..Len(R.list) :
               R.list[i].count = Occurrences(R.n, R.list[i].members)
          /\ \A i \in 1..(Len(R.list) - 1) :
               RanksBefore(R.n, R.list[i].members, R.list[i + 1].members)
          /\ \A c \in candidates \ listed :
               RanksBefore(R.n, R.list[Len(R.list)].members, c)

\* a full single-word list that leaves a word out, holds a tie, and ranks a
\* word seen later before one seen earlier
C9_Witness ==
  /\ KdReported
  /\ Len(kdOut.topSingleWords) = TopSingleLimit
  /\ Len(kdOut.topBigrams) = TopNgramLimit
  /\ \E w \in WindowStarts(1) :
       /\ ~ HasStopWord(Window(1, w))
       /\ \A i \in 1..TopSingleLimit : kdOut.topSingleWords[i].word # kdWords[w]
  /\ \E i \in 1..(TopSingleLimit - 1) :
       kdOut.topSingleWords[i].count = kdOut.topSingleWords[i + 1].count
  /\ \E i \in 1..(TopSingleLimit - 1) :
       FirstSeen(1, <<kdOut.topSingleWords[i].word>>)
         > FirstSeen(1, <<kdOut.topSingleWords[i + 1].word>>)

\* a density string "<digits>.<d><d>%" read back as a number of hundredths
WellFormedDensity(s) ==
  /\ Len(s) >= 5
  /\ s[Len(s)] = "%"
  /\ s[Len(s) - 3] = "."
  /\ \A i \in (1..(Len(s) - 1)) \ {Len(s) - 3} : s[i] \in Digits

DensityHundredths(s) ==
  100 * StringToNat(SubSeq(s, 1, Len(s) - 4))
    + StringToNat(SubSeq(s, Len(s) - 2, Len(s) - 1))

Abs(x) == IF x < 0 THEN -x ELSE x

\* C10: on "the cat sat on the mat. the cat ran." with target "cat" the
\* report has totalWords = 9, target count 2 and target density "22.22%";
\* in general totalWords is the length of the token stream and the target
\* density is count / totalWords * 100 to the nearest hundredth.
C10_ExampleAndDensity ==
  KdReported =>
    /\ (kdText = ExampleText /\ kdTarget = <<"c","a","t">>) =>
          /\ kdOut.totalWords = 9
          /\ kdOut.targetKeyword.count = 2
          /\ kdOut.targetKeyword.density = <<"2","2",".","2","2","%">>
    /\ kdOut.totalWords = Len(kdWords)
    /\ kdOut.targetKeyword # Null =>
          /\ WellFormedDensity(kdOut.targetKeyword.density)
          /\ 2 * Abs(DensityHundredths(kdOut.targetKeyword.density)
                       * kdOut.totalWords
                     - 10000 * kdOut.targetKeyword.count)
               <= kdOut.totalWords

\* the example call has returned its report
C10_Witness ==
  /\ KdReported
  /\ kdText = ExampleText
  /\ kdTarget = <<"c","a","t">>
  /\ kdOut.targetKeyword # Null

-----------------------------------------------------------------------------
(* Properties of the tool handlers                                         *)

Done == pc = "done"

\* the handler returned one text item
IsTextReply ==
  /\ reply # Pending
  /\ DOMAIN reply = {"content"}
  /\ Len(reply.content) = 1
  /\ reply.content[1].type = "text"

ReplyText == reply.content[1].text

\* an object with the single field `error`, holding a message
IsErrorObject(t) ==
  /\ DOMAIN t = {"error"}
  /\ t.error # <<>>
  /\ t.error \in Seq(STRING)

\* the analyzer returned a report, not an error object
Reported == Done /\ outcome.kind = "return" /\ "error" \notin DOMAIN outcome.value

Report == outcome.value

\* the page of C1: <title>Short</title>, no meta description, no Open Graph
\* tag, no twitter:card, no canonical link
ShortTitlePage ==
  /\ tool = "meta_tags"
  /\ Reported
  /\ body.title = S_Short
  /\ body.canonical = Undefined
  /\ \A i \in 1..Len(body.metas) :
       /\ body.metas[i].name # S_description
       /\ body.metas[i].name # S_twitterCard
       /\ body.metas[i].property # S_twitterCard
       /\ ~ StartsWith(body.metas[i].property, S_og)

ShortTitleFindings ==
  /\ Report.title.ok = TRUE
  /\ Report.title.tip
       = "Title is short. Aim for 50-60 characters for better CTR."
  /\ Report.description.ok = FALSE
  /\ \E i \in 1..Len(Report.issues) :
       Report.issues[i] = "Missing meta description"

\* C1 as stated: on that page the report has title.ok = true with the
\* short-title tip, description.ok = false, a missing-description issue,
\* exactly 5 issues and score "3/8".
C1_FiveIssues ==
  ShortTitlePage =>
    /\ ShortTitleFindings
    /\ Len(Report.issues) = 5
    /\ Report.score = <<"3", "/", "8">>

\* C1 amended: on that page the report has title.ok = true with the
\* short-title tip, description.ok = false, a missing-description issue,
\* exactly 7 issues (the description, the four Open Graph properties,
\* twitter:card and the canonical link) and score "1/8".
C1_SevenIssues ==
  ShortTitlePage =>
    /\ ShortTitleFindings
    /\ Report.issues =
         << "Missing meta description", "Missing og:title",
            "Missing og:description",
            "Missing og:image (no preview image for social shares)",
            "Missing og:url", "Missing twitter:card",
            "No canonical URL set" >>
    /\ Len(Report.issues) = 7
    /\ Report.score = <<"1", "/", "8">>

\* the meta-tag analyzer has reported on the page of C1
C1_Witness == ShortTitlePage /\ Len(Report.issues) = 7

\* C3 as stated: when the page fetch of the meta-tag or heading analyzer
\* ends in a transport failure or in a response with a non-2xx status, the
\* call ends in an error object and never in a report on the response body.
C3_FailureIsError ==
  (tool \in PageTools /\ Done /\ (failure # "none" \/ status \notin 200..299))
    => IsTextReply /\ IsErrorObject(ReplyText)

\* the adjacent pairs of the reported headings that skip a level
SkippingPairs(hs) == {i \in 2..Len(hs) : hs[i].level > hs[i - 1].level + 1}

ScoreNumerator(score) == StringToNat(SubSeq(score, 1, Len(score) - 2))

\* C4 as stated: the heading score numerator is 4 minus the number of
\* failing checks among: an H1 exists, at most one H1, no adjacent pair
\* skips a level, the first heading is H1; the skip check fails exactly
\* when some adjacent pair skips, whatever the heading texts are.
C4_ScoreCountsFourChecks ==
  (tool = "heading_structure" /\ Reported) =>
    LET hs == Report.headings
        h1 == Cardinality({i \in 1..Len(hs) : hs[i].level = 1})
    IN  ScoreNumerator(Report.score) =
          4 - (IF h1 = 0 THEN 1 ELSE 0)
            - (IF h1 > 1 THEN 1 ELSE 0)
            - (IF SkippingPairs(hs) # {} THEN 1 ELSE 0)
            - (IF hs # <<>> /\ hs[1].level # 1 THEN 1 ELSE 0)

\* C5: the skipped-level issues are, in order, the adjacent pairs whose
\* later level exceeds the earlier by more than 1, each naming its two
\* levels; a drop in level never produces one; [H1, H3] yields exactly one,
\* naming H1 and H3; [H2, H1] yields a wrong-first-heading issue and none.
C5_SkippedLevelIssues ==
  (tool = "heading_structure" /\ Reported) =>
    LET hs == Report.headings
        levels == [i \in 1..Len(hs) |-> hs[i].level]
        skipped == SelectSeq(Report.issues, LAMBDA i : i.kind = "skipped")
        pairs == SkippingPairs(hs)
    IN  /\ Len(skipped) = Cardinality(pairs)
        /\ \A k \in 1..Len(skipped) :
             LET p == CHOOSE i \in pairs :
                        Cardinality({j \in pairs : j < i}) = k - 1
             IN  /\ skipped[k].from = levels[p - 1]
                 /\ skipped[k].to = levels[p]
                 /\ skipped[k].to > skipped[k].from + 1
        /\ levels = <<1, 3>> =>
             /\ Len(skipped) = 1
             /\ skipped[1].from = 1
             /\ skipped[1].to = 3
        /\ levels = <<2, 1>> =>
             /\ skipped = <<>>
             /\ \E i \in 1..Len(Report.issues) :
                  /\ Report.issues[i].kind = "firstNotH1"
                  /\ Report.issues[i].level = 2

\* a report on headings with a skipped level followed by a drop of more
\* than one level
C5_Witness ==
  /\ tool = "heading_structure"
  /\ Reported
  /\ \E i \in 2..(Len(Report.headings) - 1) :
       /\ Report.headings[i].level > Report.headings[i - 1].level + 1
       /\ Report.headings[i + 1].level < Report.headings[i].level - 1
  /\ \E i \in 1..Len(Report.issues) : Report.issues[i].kind = "skipped"

\* C6: whatever the analyzer does, the handler returns a text result and
\* raises nothing; when the analyzer threw or returned an error, the text is
\* an object with the single field `error` holding a message.
C6_HandlerAlwaysReplies ==
  /\ ~ Done => reply = Pending
  /\ Done =>
       /\ IsTextReply
       /\ (outcome.kind = "throw" \/ "error" \in DOMAIN outcome.value)
            => IsErrorObject(ReplyText)

\* a call whose analyzer threw has been answered
C6_Witness ==
  /\ Done
  /\ outcome.kind = "throw"
  /\ IsTextReply
  /\ IsErrorObject(ReplyText)

ReportFields ==
  [meta_tags |-> {"url", "title", "description", "canonical", "openGraph",
                  "twitter", "other", "issues", "score"},
   heading_structure |-> {"url", "headingCount", "headings", "hierarchy",
                          "issues", "outline", "score"},
   robots_txt |-> {"url", "found", "rules", "sitemaps", "issues", "summary"},
   sitemap_check |-> {"url", "found", "format", "urlCount", "sampleUrls",
                      "lastModDates", "childSitemaps", "issues", "summary"},
   keyword_density |-> {"totalWords", "uniqueWords", "targetKeyword",
                        "topSingleWords", "topBigrams", "topTrigrams"},
   readability |-> {"fleschReadingEase", "fleschKincaidGrade", "stats",
                    "tips"}]

\* C7: a call issues at most one fetch; once the fetch has failed the call
\* is over, with an error as its result and no further fetch; a finished
\* call holds an error or a report with all of its fields.
C7_OneFetchNoPartialReport ==
  /\ fetches <= 1
  /\ failure # "none" =>
       /\ Done
       /\ fetches = 1
       /\ IsTextReply
       /\ IsErrorObject(ReplyText)
  /\ Done =>
       /\ IsTextReply
       /\ IsErrorObject(ReplyText) \/ DOMAIN ReplyText = ReportFields[tool]

\* a call whose only fetch failed has ended in an error
C7_Witness ==
  /\ Done
  /\ failure = "network"
  /\ fetches = 1
  /\ IsErrorObject(ReplyText)

-----------------------------------------------------------------------------
(* Properties of the numbers of keyword_density                            *)

\* the count and density of every entry of the three ranked lists
ListEntries ==
  {[count |-> kdOut.topSingleWords[i].count,
    density |-> kdOut.topSingleWords[i].density] :
      i \in 1..Len(kdOut.topSingleWords)}
  \cup {[count |-> kdOut.topBigrams[i].count,
          density |-> kdOut.topBigrams[i].density] :
            i \in 1..Len(kdOut.topBigrams)}
  \cup {[count |-> kdOut.topTrigrams[i].count,
          density |-> kdOut.topTrigrams[i].density] :
            i \in 1..Len(kdOut.topTrigrams)}

TargetEntries ==
  IF kdOut.targetKeyword = Null THEN {}
  ELSE {[count |-> kdOut.targetKeyword.count,
         density |-> kdOut.targetKeyword.density]}

\* C11: every density of a report (ranked lists and target) whose count is
\* at most totalWords is a two-decimal number from 0.00 to 100.00; the counts
\* of the ranked lists and of a single-token target never exceed totalWords.
C11_DensityWithinHundred ==
  KdReported =>
    /\ \A e \in ListEntries \cup TargetEntries :
         e.count <= kdOut.totalWords =>
           /\ WellFormedDensity(e.density)
           /\ DensityHundredths(e.density) >= 0
           /\ DensityHundredths(e.density) <= 10000
    /\ \A e \in ListEntries : e.count >= 1 /\ e.count <= kdOut.totalWords
    /\ (KdTargetGiven /\ ~ KdMultiToken) =>
         \A e \in TargetEntries : e.count >= 0 /\ e.count <= kdOut.totalWords

\* a report on a text of one word repeated, which is also the target: both
\* the word and the target have density 100.00%
C11_Witness ==
  /\ KdReported
  /\ kdOut.totalWords >= 2
  /\ KdTargetGiven
  /\ ~ KdMultiToken
  /\ kdOut.targetKeyword.count = kdOut.totalWords
  /\ kdOut.targetKeyword.density = <<"1","0","0",".","0","0","%">>
  /\ \E e \in ListEntries : DensityHundredths(e.density) = 10000

-----------------------------------------------------------------------------
(* Properties of the empty-input guards                                    *)

\* C12: keywordDensity on a text without tokens and readability on a text
\* without words return an error object; every report that is produced has a
\* word count of at least 1 under its densities and averages, and no density
\* is NaN or Infinity.
C12_NoZeroDenominator ==
  /\ (tool = "keyword_density" /\ Done) =>
       /\ kdOut = ReplyText
       /\ kdWords = <<>> =>
            /\ IsErrorObject(ReplyText)
            /\ ReplyText = NoWordsError
       /\ KdReported =>
            /\ kdOut.totalWords >= 1
            /\ \A e \in ListEntries \cup TargetEntries :
                 WellFormedDensity(e.density)
  /\ (tool = "readability" /\ Done) =>
       /\ SplitWords(rdText) = <<>> =>
            /\ IsErrorObject(ReplyText)
            /\ ReplyText = TooShortError
       /\ ~ IsErrorObject(ReplyText) =>
            /\ ReplyText.stats.wordCount >= 1
            /\ ReplyText.stats.wordCount = Len(SplitWords(rdText))
            /\ ReplyText.stats.sentenceCount >= 1

\* keyword_density has answered a non-empty text without tokens
C12_Witness ==
  /\ tool = "keyword_density"
  /\ Done
  /\ kdText # <<>>
  /\ kdWords = <<>>
  /\ ReplyText = NoWordsError

-----------------------------------------------------------------------------
(* Properties of readability                                               *)

RdDone == tool = "readability" /\ Done

RdWordCount == Len(SplitWords(rdText))

RdIsReport ==
  DOMAIN ReplyText
    = {"fleschReadingEase", "fleschKincaidGrade", "stats", "tips"}

\* C13: readability answers with the too-short error, and with no score,
\* exactly when the text has fewer than 10 words; a text of exactly 10 words
\* gets a report, and ten one-syllable words in two sentences are reported
\* as 10 words, 2 sentences and 10 syllables.
C13_TooShortBelowTen ==
  RdDone =>
    /\ RdWordCount < 10 =>
         /\ ReplyText = TooShortError
         /\ DOMAIN ReplyText = {"error"}
    /\ RdWordCount >= 10 =>
         /\ RdIsReport
         /\ {"score", "interpretation"} \subseteq DOMAIN ReplyText.fleschReadingEase
         /\ {"score", "interpretation"} \subseteq DOMAIN ReplyText.fleschKincaidGrade
         /\ ReplyText.stats.wordCount = RdWordCount
    /\ rdText = RdTenWords =>
         /\ RdIsReport
         /\ ReplyText.stats.wordCount = 10
         /\ ReplyText.stats.sentenceCount = 2
         /\ ReplyText.stats.syllableCount = 10

\* the ten one-syllable words in two sentences have been scored
C13_Witness ==
  /\ RdDone
  /\ rdText = RdTenWords
  /\ RdWordCount = 10
  /\ RdIsReport

\* the scores before they are limited, in tenths
RdRawScores ==
  LET words == SplitWords(rdText)
      W == Len(words)
      S == Max(Len(SplitSentences(rdText)), 1)
      Syl == SumSyllables(words)
  IN  [ease |-> Round(206835 * S * W - 1015 * W * W - 84600 * Syl * S,
                      100 * S * W),
       grade |-> Round(39 * W * W + 1180 * Syl * S - 1559 * S * W,
                       10 * S * W)]

\* C14: in every readability report the Flesch Reading Ease score lies in
\* [0, 100] and the Flesch-Kincaid Grade score is at least 0, also when the
\* formulas give a value outside; the sentence count is at least 1.
C14_ScoresClamped ==
  (RdDone /\ RdWordCount >= 10) =>
    /\ RdIsReport
    /\ ReplyText.fleschReadingEase.score >= 0
    /\ ReplyText.fleschReadingEase.score <= 1000
    /\ ReplyText.fleschKincaidGrade.score >= 0
    /\ ReplyText.stats.sentenceCount >= 1
    /\ RdRawScores.ease \in 0..1000 =>
         ReplyText.fleschReadingEase.score = RdRawScores.ease
    /\ RdRawScores.grade >= 0 =>
         ReplyText.fleschKincaidGrade.score = RdRawScores.grade

\* a report whose ease formula gives less than 0, reported as 0
C14_Witness ==
  /\ RdDone
  /\ RdWordCount >= 10
  /\ RdIsReport
  /\ RdRawScores.ease < 0
  /\ ReplyText.fleschReadingEase.score = 0
  /\ ReplyText.fleschKincaidGrade.score > 0

-----------------------------------------------------------------------------
(* Handler calls side by side                                              *)
(*                                                                         *)
(* The server answers a tool call while others are suspended at an await.  *)
(* Each call has its own locals (the maps, counters and regular-expression *)
(* objects of the synchronous analysis live inside one step); the          *)
(* module-level STOP_WORDS set is only read.  What the network does to the *)
(* fetch of a call is part of the call's input: `net`.                     *)

\* the most calls side by side
MaxCalls == 2

NoNet == [kind |-> "none", status |-> 0, body |-> NoBody, ms |-> 0]

\* the fetch resolves with a response and its body can be read
NetOk(st, b, ms) == [kind |-> "ok", status |-> st, body |-> b, ms |-> ms]

\* the fetch rejects
NetFail == [kind |-> "fail", status |-> 0, body |-> NoBody, ms |-> 0]

\* no response within the 15 s of fetchPage
NetSlow == [kind |-> "slow", status |-> 0, body |-> NoBody, ms |-> 0]

\* the fetch resolves and res.text() rejects
NetBodyFail(st) == [kind |-> "bodyfail", status |-> st, body |-> NoBody, ms |-> 0]

PageUrl == [valid |-> TRUE, path |-> "/page"]

RootUrl == [valid |-> TRUE, path |-> "/"]

BadUrl == [valid |-> FALSE, path |-> "not a url"]

CallPageA ==
  [title |-> S_Short, metas |-> <<>>, canonical |-> Undefined,
   headings |-> << [level |-> 1, inner |-> HeadingShort],
                   [level |-> 3, inner |-> HeadingShort] >>]

CallRobotsBody ==
  << [key |-> "user-agent", value |-> "*"],
     [key |-> "disallow", value |-> "/"] >>

CallSitemapBody ==
  [form |-> "urlset",
   entries |-> << [loc |-> "https://example.com/a",
                   lastmod |-> "2024-01-01"] >>]

CallInput(t, u, text, target, net) ==
  [tool |-> t, url |-> u, text |-> text, target |-> target, net |-> net]

CallInputs ==
  { CallInput("keyword_density", NoUrl, ExampleText, <<"c","a","t">>, NoNet),
    CallInput("readability", NoUrl, RdTenWords, Undefined, NoNet) }
  \cup { CallInput("meta_tags", PageUrl, <<>>, Undefined, n) :
           n \in { NetOk(200, CallPageA, 1), NetOk(200, CallPageA, 2),
                   NetOk(404, CallPageA, 1), NetFail, NetSlow } }
  \cup { CallInput("heading_structure", PageUrl, <<>>, Undefined, n) :
           n \in { NetOk(200, CallPageA, 1), NetSlow, NetBodyFail(200) } }
  \cup { CallInput("robots_txt", u, <<>>, Undefined, n) :
           u \in {RootUrl},
           n \in { NetOk(200, [lines |-> CallRobotsBody], 0),
                   NetOk(404, [lines |-> <<>>], 0), NetFail } }
  \cup { CallInput("robots_txt", BadUrl, <<>>, Undefined, NoNet) }
  \cup { CallInput("sitemap_check", RootUrl, <<>>, Undefined, n) :
           n \in { NetOk(200, CallSitemapBody, 0),
                   NetOk(404, CallSitemapBody, 0), NetBodyFail(200) } }

\* a call that has been received and has not run yet
NewCall(in) ==
  [in |-> in, pc |-> "start", timerArmed |-> FALSE, fetches |-> 0,
   status |-> 0, reply |-> Pending]

\* what fetchPage returns
FetchPageResult(net) ==
  [html |-> net.body, status |-> net.status, responseTimeMs |-> net.ms]

\* a variant in which the analyzers put the response time in their report
PageAnalysisTimed(t, pageUrl, page) ==
  [report |-> IF t = "meta_tags" THEN MetaReport(pageUrl, page.html)
              ELSE HeadingReport(pageUrl, ExtractHeadings(page.html)),
   responseTimeMs |-> page.responseTimeMs]

\* metaTags and headingStructure take only html from what fetchPage returns
PageAnalysis(t, pageUrl, page) ==
  IF t = "meta_tags" THEN MetaReport(pageUrl, page.html)
  ELSE HeadingReport(pageUrl, ExtractHeadings(page.html))

\* a variant with one AbortController for all calls
AbortTargetsShared(c) == 1..MaxCalls

\* the calls whose fetch the AbortController of call c aborts: fetchPage
\* makes a controller of its own on every call
AbortTargets(c) == {c}

TargetUrl(in) ==
  IF in.tool = "robots_txt" THEN RobotsUrl(in.url) ELSE SitemapUrl(in.url)

\* the call ends with outcome o; its timer is cleared
Ended(call, o) ==
  [call EXCEPT !.pc = "done", !.timerArmed = FALSE, !.reply = Handler(o)]

\* the handler runs up to its first await, or to its end when there is none
StartedCall(call) ==
  LET in == call.in
  IN  CASE in.tool = "keyword_density" ->
             Ended(call, Returned(KeywordDensity(in.text, in.target)))
        [] in.tool = "readability" ->
             Ended(call, Returned(Readability(in.text)))
        [] in.tool \in PageTools ->
             [call EXCEPT !.pc = "fetching", !.timerArmed = TRUE,
                          !.fetches = @ + 1]
        [] OTHER ->
             IF in.url.valid
             THEN [call EXCEPT !.pc = "fetching", !.fetches = @ + 1]
             ELSE Ended(call, Returned(InvalidUrlError(in.url)))

\* the fetch of the call resolves or rejects
FetchSettledCall(call) ==
  LET in == call.in
      got == [call EXCEPT !.status = in.net.status]
  IN  IF in.net.kind = "fail"
      THEN IF in.tool \in PageTools
           THEN Ended(call, Threw("fetch failed"))
           ELSE Ended(call, Returned(FailedToFetchError(TargetUrl(in),
                                                        "fetch failed")))
      ELSE IF in.tool = "robots_txt" /\ in.net.status # OkStatus
           THEN Ended(got, Returned(RobotsNotFound(TargetUrl(in))))
           ELSE [got EXCEPT !.pc = "reading"]

\* res.text() of the call resolves or rejects; the analysis follows at once
BodySettledCall(call) ==
  LET in == call.in
  IN  IF in.net.kind = "bodyfail"
      THEN IF in.tool \in PageTools
           THEN Ended(call, Threw("terminated"))
           ELSE Ended(call, Returned(FailedToFetchError(TargetUrl(in),
                                                        "terminated")))
      ELSE CASE in.tool \in PageTools ->
                  Ended(call, Returned(PageAnalysis(in.tool, in.url,
                                         FetchPageResult(in.net))))
             [] in.tool = "robots_txt" ->
                  Ended(call, Returned(RobotsReport(TargetUrl(in),
                                                    in.net.body.lines)))
             [] OTHER ->
                  Ended(call, Returned(
                    IF call.status # OkStatus
                    THEN SitemapNotFound(TargetUrl(in), call.status)
                    ELSE SitemapReport(TargetUrl(in), in.net.body)))

\* the controller of a timer that fired aborts the pending fetch or body
\* read of the call
AbortedCall(call) ==
  IF call.in.tool \in PageTools /\ call.pc \in {"fetching", "reading"}
  THEN Ended(call, Threw("This operation was aborted"))
  ELSE call

CallsIdle ==
  /\ ServerIdle
  /\ kdText = <<>>
  /\ kdTarget = Undefined
  /\ kdWords = <<>>
  /\ kdOut = Pending

CallsInit ==
  /\ CallsIdle
  /\ \E ins \in [1..MaxCalls -> CallInputs] :
       calls = [c \in 1..MaxCalls |-> NewCall(ins[c])]

CallStart(c) ==
  /\ calls[c].pc = "start"
  /\ calls' = [calls EXCEPT ![c] = StartedCall(@)]
  /\ UNCHANGED <<kdVars, serverVars>>

CallFetchSettles(c) ==
  /\ calls[c].pc = "fetching"
  /\ calls[c].in.net.kind # "slow"
  /\ calls' = [calls EXCEPT ![c] = FetchSettledCall(@)]
  /\ UNCHANGED <<kdVars, serverVars>>

CallBodySettles(c) ==
  /\ calls[c].pc = "reading"
  /\ calls' = [calls EXCEPT ![c] = BodySettledCall(@)]
  /\ UNCHANGED <<kdVars, serverVars>>

\* the 15 s timer of call c fires: its response is slow
CallTimerFires(c) ==
  /\ calls[c].timerArmed
  /\ calls[c].in.net.kind = "slow"
  /\ calls' = [d \in 1..MaxCalls |->
                 IF d \in AbortTargets(c) THEN AbortedCall(calls[d])
                 ELSE calls[d]]
  /\ UNCHANGED <<kdVars, serverVars>>

CallsNext ==
  \E c \in 1..MaxCalls :
    \/ CallStart(c)
    \/ CallFetchSettles(c)
    \/ CallBodySettles(c)
    \/ CallTimerFires(c)

SpecCalls == CallsInit /\ [][CallsNext]_vars

-----------------------------------------------------------------------------
(* Properties of calls side by side                                        *)

\* what the analyzer of a call comes to when the call runs alone
AnalyzerAlone(in) ==
  LET net == in.net
  IN  CASE in.tool = "keyword_density" ->
             Returned(KeywordDensity(in.text, in.target))
        [] in.tool = "readability" -> Returned(Readability(in.text))
        [] in.tool = "meta_tags" ->
             (CASE net.kind = "ok" -> Returned(MetaReport(in.url, net.body))
                [] net.kind = "fail" -> Threw("fetch failed")
                [] net.kind = "slow" -> Threw("This operation was aborted")
                [] OTHER -> Threw("terminated"))
        [] in.tool = "heading_structure" ->
             (CASE net.kind = "ok" ->
                     Returned(HeadingReport(in.url, ExtractHeadings(net.body)))
                [] net.kind = "fail" -> Threw("fetch failed")
                [] net.kind = "slow" -> Threw("This operation was aborted")
                [] OTHER -> Threw("terminated"))
        [] in.tool = "robots_txt" ->
             Returned(
               IF ~ in.url.valid THEN InvalidUrlError(in.url)
               ELSE IF net.kind = "fail"
               THEN FailedToFetchError(RobotsUrl(in.url), "fetch failed")
               ELSE IF net.status # 200 THEN RobotsNotFound(RobotsUrl(in.url))
               ELSE IF net.kind = "bodyfail"
               THEN FailedToFetchError(RobotsUrl(in.url), "terminated")
               ELSE RobotsReport(RobotsUrl(in.url), net.body.lines))
        [] OTHER ->
             Returned(
               IF ~ in.url.valid THEN InvalidUrlError(in.url)
               ELSE IF net.kind = "fail"
               THEN FailedToFetchError(SitemapUrl(in.url), "fetch failed")
               ELSE IF net.kind = "bodyfail"
               THEN FailedToFetchError(SitemapUrl(in.url), "terminated")
               ELSE IF net.status # 200
               THEN SitemapNotFound(SitemapUrl(in.url), net.status)
               ELSE SitemapReport(SitemapUrl(in.url), net.body))

ReplyAlone(in) == Handler(AnalyzerAlone(in))

\* C15: under every interleaving of the steps of the calls, a call that has
\* ended holds the result it produces when it runs alone on its input and
\* its network outcome, and a call that has not ended holds none.
C15_CallsDoNotInteract ==
  \A c \in DOMAIN calls :
    /\ calls[c].pc = "done" => calls[c].reply = ReplyAlone(calls[c].in)
    /\ calls[c].pc # "done" => calls[c].reply = Pending
    /\ calls[c].fetches <= 1

\* a page call has run from start to end while another page call, whose
\* response is slow, is suspended at its fetch with its timer set
C15_Witness ==
  /\ DOMAIN calls = 1..MaxCalls
  /\ \E c, d \in DOMAIN calls :
       /\ c # d
       /\ calls[c].in.tool \in PageTools
       /\ calls[c].pc = "fetching"
       /\ calls[c].timerArmed
       /\ calls[c].in.net.kind = "slow"
       /\ calls[d].in.tool \in PageTools
       /\ calls[d].in.net.kind = "ok"
       /\ calls[d].pc = "done"
       /\ calls[d].reply = ReplyAlone(calls[d].in)
       /\ "error" \notin DOMAIN calls[d].reply.content[1].text

-----------------------------------------------------------------------------
(* Properties of repeated calls                                            *)

TextTools == {"keyword_density", "readability"}

EndedCalls == {c \in DOMAIN calls : calls[c].pc = "done"}

SameArguments(a, b) ==
  /\ a.tool = b.tool
  /\ a.url = b.url
  /\ a.text = b.text
  /\ a.target = b.target

\* the call has read the body of its response
FetchedMarkup(in) ==
  /\ in.tool \notin TextTools
  /\ in.url.valid
  /\ in.net.kind = "ok"
  /\ in.tool = "robots_txt" => in.net.status = OkStatus

\* a call of a text tool gives what every other call with its arguments
\* gives, whatever calls ran before or beside it
TextToolsRepeat ==
  \A c, d \in EndedCalls :
    (calls[c].in.tool \in TextTools /\ SameArguments(calls[c].in, calls[d].in))
      => calls[c].reply = calls[d].reply

-----------------------------------------------------------------------------
(* Properties of robots_txt and sitemap_check                              *)

SiteTools == {"robots_txt", "sitemap_check"}

\* the call received a response whose status is not 2xx, and read what it
\* reads of it without a failure
NonOkResponse ==
  /\ tool \in SiteTools
  /\ Done
  /\ url.valid
  /\ failure = "none"
  /\ status # 0
  /\ status \notin 200..299

\* C17: a robots_txt or sitemap_check call that received a non-2xx response
\* returns a report with found = false and exactly one issue, with no rules,
\* sitemaps or URLs taken from the body; such a call returns an error
\* object only for an invalid URL or a failed fetch.
C17_NotFoundIsAReport ==
  /\ NonOkResponse =>
       /\ IsTextReply
       /\ "error" \notin DOMAIN ReplyText
       /\ DOMAIN ReplyText = ReportFields[tool]
       /\ ReplyText.found = FALSE
       /\ Len(ReplyText.issues) = 1
       /\ tool = "robots_txt" =>
            /\ ReplyText.rules = <<>>
            /\ ReplyText.sitemaps = <<>>
       /\ tool = "sitemap_check" =>
            /\ ReplyText.urlCount = 0
            /\ ReplyText.sampleUrls = <<>>
            /\ ReplyText.lastModDates = <<>>
            /\ ReplyText.childSitemaps = <<>>
            /\ ReplyText.issues[1].n = status
  /\ (tool \in SiteTools /\ Done /\ "error" \in DOMAIN ReplyText) =>
       /\ IsErrorObject(ReplyText)
       /\ ~ url.valid \/ failure # "none"
       /\ ~ url.valid => fetches = 0

\* sitemap_check has answered a 404 response whose body lists URLs
C17_Witness ==
  /\ NonOkResponse
  /\ tool = "sitemap_check"
  /\ status = 404
  /\ body.form = "urlset"
  /\ body.entries # <<>>
  /\ ReplyText.found = FALSE
  /\ ReplyText.urlCount = 0

-----------------------------------------------------------------------------
(* Properties of the meta-tag score                                        *)

MetaReported == tool = "meta_tags" /\ Reported

HasIssue(text) ==
  \E i \in 1..Len(Report.issues) : Report.issues[i] = text

\* the issue of each of the 8 checks, with whether the report shows the
\* checked item as missing (absent or empty)
MetaCheckList ==
  << [issue |-> "Missing <title> tag",
      missing |-> ~ Truthy(Report.title.value)],
     [issue |-> "Missing meta description",
      missing |-> ~ Truthy(Report.description.value)],
     [issue |-> "Missing og:title",
      missing |-> Lacks(Report.openGraph, S_ogTitle)],
     [issue |-> "Missing og:description",
      missing |-> Lacks(Report.openGraph, S_ogDescription)],
     [issue |-> "Missing og:image (no preview image for social shares)",
      missing |-> Lacks(Report.openGraph, S_ogImage)],
     [issue |-> "Missing og:url",
      missing |-> Lacks(Report.openGraph, S_ogUrl)],
     [issue |-> "Missing twitter:card",
      missing |-> Lacks(Report.twitter, S_twitterCard)],
     [issue |-> "No canonical URL set",
      missing |-> ~ Truthy(Report.canonical)] >>

LengthTips ==
  { "Title is short. Aim for 50-60 characters for better CTR.",
    "Title may be truncated in SERPs. Keep under 60 characters.",
    "Description is short. Aim for 120-160 characters.",
    "Description may be truncated. Keep under 160 characters." }

\* C18: the numerator of the meta-tag score is 8 minus the number of
\* issues and lies in 0..8; the issues are those of the 8 checks, each at
\* most once and exactly when its item is missing; a title or description
\* with a length tip is ok and has no issue, so its length does not touch
\* the score.
C18_MetaScore ==
  MetaReported =>
    /\ Len(MetaCheckList) = 8
    /\ Report.score = Score(8 - Len(Report.issues), 8)
    /\ ScoreNumerator(Report.score) = 8 - Len(Report.issues)
    /\ ScoreNumerator(Report.score) \in 0..8
    /\ \A i \in 1..Len(Report.issues) :
         /\ \E k \in 1..8 : MetaCheckList[k].issue = Report.issues[i]
         /\ \A j \in 1..Len(Report.issues) :
              Report.issues[i] = Report.issues[j] => i = j
    /\ \A k \in 1..8 :
         HasIssue(MetaCheckList[k].issue) <=> MetaCheckList[k].missing
    /\ Report.title.tip \in LengthTips =>
         /\ Report.title.ok = TRUE
         /\ ~ HasIssue("Missing <title> tag")
    /\ Report.description.tip \in LengthTips =>
         /\ Report.description.ok = TRUE
         /\ ~ HasIssue("Missing meta description")

\* a report with a length tip on the title and on the description and the
\* full score
C18_Witness ==
  /\ MetaReported
  /\ Report.title.tip \in LengthTips
  /\ Report.description.tip \in LengthTips
  /\ Report.issues = <<>>
  /\ Report.score = <<"8", "/", "8">>

=============================================================================
